---- MODULE Spec2Model ----
(***************************************************************************)
(* A model of pydance's input plumbing (ui.py): EventValve, EventForkValve *)
(* and EventPlumbing, as a heap of objects addressed by identity.          *)
(*                                                                         *)
(* Objects are numbered; a reference is a number (valves, forks, event     *)
(* lists) and Python's identity comparisons are comparisons of numbers.    *)
(***************************************************************************)
EXTENDS Integers, Sequences, FiniteSets, TLC

(***************************************************************************)
(* Program constants (ui.py 41-64).                                        *)
(***************************************************************************)
PASS == 0
CANCEL == 1
UP == 2
UPLEFT == 3
LEFT == 4
DOWN == 6
RIGHT == 8
UPRIGHT == 9
CENTER == 10
QUIT == 19
MAX_PLAYERS == 4
PLAYERS_MASK == MAX_PLAYERS - 1
MAX_BUTTONS == 32
GENERIC_BUTTON == 64
GENERIC_BUTTON_SHIFTER == 8
MIN_LEARN_GENERIC_BUTTON_COUNT == 5
\* .85 and .5, in hundredths
LEARN_GENERIC_BUTTON_DIRECTION == 85
LEARN_GENERIC_BUTTON_INDEPENDENT == 50

(***************************************************************************)
(* Bounds of the model.                                                    *)
(***************************************************************************)
\* a lone valve is built with start_pressure in -MaxBias..0
MaxBias == 2
\* plus()/minus() are called on a lone valve or fork while its pressure
\* stays within -MaxPressure..MaxPressure
MaxPressure == 2
\* an operation that would leave more than MaxQueue events pending is not taken
MaxQueue == 2

VARIABLES
  valve,     \* the EventValve objects: identity -> fields
  fork,      \* the EventForkValve objects: identity -> fields
  queue,     \* the event lists (deques): identity -> sequence of (pid, evid)
  hist,      \* per observed valve: the polarity it appended last, the parity of its appends
  net,       \* per valve: plus() calls minus minus() calls since construction or reset()
  op,        \* the call made last: [name, p, i]
  plumbing,  \* the EventPlumbing objects: identity -> fields
  pressed,   \* per plumbing: the indexes its driver holds raised
  added      \* the add() calls made on the template, in order

vars == <<valve, fork, queue, hist, net, op, plumbing, pressed, added>>

\* the object identity of ui.event_buffer
EVENT_BUFFER == 0

\* the mutable part of the heap that plus()/minus()/reset() work on
Machine ==
  [valve |-> valve, fork |-> fork, queue |-> queue, hist |-> hist,
   plumbing |-> plumbing]

NoHist == [last |-> "none", clean |-> TRUE, n |-> 0]

Call(name, p, i) == [name |-> name, p |-> p, i |-> i]

(***************************************************************************)
(* EventValve                                                              *)
(***************************************************************************)
EventValve_init(pid, evid, evlist, start_pressure) ==
  [open |-> <<pid, evid>>, closed |-> <<pid, -evid>>, evlist |-> evlist,
   pressure |-> start_pressure, start_pressure |-> start_pressure,
   enabled |-> TRUE]

\* self.evlist.append(self.open) / self.evlist.append(self.closed); the hist of
\* an observed valve records the polarity and counts the append (modulo 2)
Emit(m, v, pol) ==
  LET ev == IF pol = "open" THEN m.valve[v].open ELSE m.valve[v].closed
  IN [m EXCEPT !.queue[m.valve[v].evlist] = Append(@, ev),
               !.hist = IF v \in DOMAIN @
                        THEN [@ EXCEPT ![v] = [last |-> pol, clean |-> TRUE, n |-> 1 - @.n]]
                        ELSE @]

\* something other than plus()/minus() changed valve v since its last event
Touch(m, v) ==
  [m EXCEPT !.hist = IF v \in DOMAIN @ THEN [@ EXCEPT ![v].clean = FALSE] ELSE @]

\* mutant: the enabled flag is not consulted
EventValve_plus_noenabled(m, v) ==
  LET m1 == IF m.valve[v].pressure = 0 THEN Emit(m, v, "open") ELSE m
  IN [m1 EXCEPT !.valve[v].pressure = @ + 1]

\* mutant: the open event is appended whatever the pressure
EventValve_plus_nopressure(m, v) ==
  LET m1 == IF m.valve[v].enabled THEN Emit(m, v, "open") ELSE m
  IN [m1 EXCEPT !.valve[v].pressure = @ + 1]

EventValve_plus(m, v) ==
  LET m1 == IF m.valve[v].enabled /\ m.valve[v].pressure = 0
            THEN Emit(m, v, "open") ELSE m
  IN [m1 EXCEPT !.valve[v].pressure = @ + 1]

EventValve_minus(m, v) ==
  LET m1 == [m EXCEPT !.valve[v].pressure = @ - 1]
  IN IF m1.valve[v].enabled /\ m1.valve[v].pressure = 0
     THEN Emit(m1, v, "closed") ELSE m1

TouchIf(changed, m, v) == IF changed THEN Touch(m, v) ELSE m

\* mutant: reset() sets the pressure to 0 instead of the start pressure
EventValve_reset_zero(m, v) ==
  TouchIf(m.valve[v].pressure # 0, [m EXCEPT !.valve[v].pressure = 0], v)

EventValve_reset(m, v) ==
  TouchIf(m.valve[v].pressure # m.valve[v].start_pressure,
          [m EXCEPT !.valve[v].pressure = m.valve[v].start_pressure], v)

(***************************************************************************)
(* EventForkValve                                                          *)
(***************************************************************************)
EventForkValve_init(start_pressure, output_valves) ==
  [pressure |-> start_pressure, start_pressure |-> start_pressure,
   output_valves |-> output_valves]

RECURSIVE PlusAll(_, _)
\* for x in self.output_valves: x.plus()
PlusAll(m, vs) ==
  IF vs = <<>> THEN m ELSE PlusAll(EventValve_plus(m, Head(vs)), Tail(vs))

RECURSIVE MinusAll(_, _)
\* for x in self.output_valves: x.minus()
MinusAll(m, vs) ==
  IF vs = <<>> THEN m ELSE MinusAll(EventValve_minus(m, Head(vs)), Tail(vs))

RECURSIVE ResetAll(_, _)
\* for x in self.output_valves: x.reset()
ResetAll(m, vs) ==
  IF vs = <<>> THEN m ELSE ResetAll(EventValve_reset(m, Head(vs)), Tail(vs))

\* mutant: the fork passes every plus() on, whatever its pressure
EventForkValve_plus_always(m, f) ==
  LET m1 == PlusAll(m, m.fork[f].output_valves)
  IN [m1 EXCEPT !.fork[f].pressure = @ + 1]

EventForkValve_plus(m, f) ==
  LET m1 == IF m.fork[f].pressure = 0
            THEN PlusAll(m, m.fork[f].output_valves) ELSE m
  IN [m1 EXCEPT !.fork[f].pressure = @ + 1]

EventForkValve_minus(m, f) ==
  LET m1 == [m EXCEPT !.fork[f].pressure = @ - 1]
  IN IF m1.fork[f].pressure = 0
     THEN MinusAll(m1, m1.fork[f].output_valves) ELSE m1

EventForkValve_reset(m, f) ==
  ResetAll([m EXCEPT !.fork[f].pressure = m.fork[f].start_pressure],
           m.fork[f].output_valves)

\* the events pending in every event list stay within the bound
QueueBounded(m) == \A q \in DOMAIN m.queue : Len(m.queue[q]) <= MaxQueue

\* the heap after an operation
SetMachine(m) ==
  /\ valve' = m.valve
  /\ fork' = m.fork
  /\ queue' = m.queue
  /\ hist' = m.hist
  /\ plumbing' = m.plumbing

(***************************************************************************)
(* A lone EventValve driven directly (the EventValve unit tests).          *)
(***************************************************************************)
InitValve ==
  /\ \E pid \in {-1, 0}, sp \in (0 - MaxBias)..0 :
       valve = (1 :> EventValve_init(pid, UP, EVENT_BUFFER, sp))
  /\ fork = <<>>
  /\ queue = (EVENT_BUFFER :> <<>>)
  /\ hist = (1 :> NoHist)
  /\ net = (1 :> 0)
  /\ op = Call("init", 0, 0)
  /\ plumbing = <<>>
  /\ pressed = <<>>
  /\ added = <<>>

ValvePlus(v) ==
  /\ valve[v].pressure < MaxPressure
  /\ QueueBounded(EventValve_plus(Machine, v))
  /\ SetMachine(EventValve_plus(Machine, v))
  /\ net' = [net EXCEPT ![v] = @ + 1]
  /\ op' = Call("plus", 0, v)
  /\ UNCHANGED <<pressed, added>>

ValveMinus(v) ==
  /\ valve[v].pressure > 0 - MaxPressure
  /\ QueueBounded(EventValve_minus(Machine, v))
  /\ SetMachine(EventValve_minus(Machine, v))
  /\ net' = [net EXCEPT ![v] = @ - 1]
  /\ op' = Call("minus", 0, v)
  /\ UNCHANGED <<pressed, added>>

ValveReset(v) ==
  /\ SetMachine(EventValve_reset(Machine, v))
  /\ net' = [net EXCEPT ![v] = 0]
  /\ op' = Call("reset", 0, v)
  /\ UNCHANGED <<pressed, added>>

\* valve.enabled = onoff, as a visitor's visit(inputs, [valve]) sets it
ValveSetEnabled(v, onoff) ==
  /\ valve[v].open[1] < 0
  /\ SetMachine(TouchIf(valve[v].enabled # onoff,
                        [Machine EXCEPT !.valve[v].enabled = onoff], v))
  /\ op' = Call("enable", 0, v)
  /\ UNCHANGED <<net, pressed, added>>

\* event_buffer.popleft()
PopLeft ==
  /\ queue[EVENT_BUFFER] # <<>>
  /\ queue' = [queue EXCEPT ![EVENT_BUFFER] = Tail(@)]
  /\ op' = Call("popleft", 0, 0)
  /\ UNCHANGED <<valve, fork, hist, net, plumbing, pressed, added>>

NextValve ==
  \/ \E v \in DOMAIN valve : ValvePlus(v)
  \/ \E v \in DOMAIN valve : ValveMinus(v)
  \/ \E v \in DOMAIN valve : ValveReset(v)
  \/ \E v \in DOMAIN valve, onoff \in BOOLEAN : ValveSetEnabled(v, onoff)
  \/ PopLeft

SpecValve == InitValve /\ [][NextValve]_vars

\* the events the last call appended to ui.event_buffer
Appended ==
  SubSeq(queue'[EVENT_BUFFER], Len(queue[EVENT_BUFFER]) + 1, Len(queue'[EVENT_BUFFER]))

CountOf(seq, e) == Cardinality({i \in DOMAIN seq : seq[i] = e})

\* C1: plus() appends the valve's open event exactly when the valve is enabled and
\* its pressure is 0 before the call, and always adds 1 to the pressure; minus()
\* always subtracts 1 and appends the closed event exactly when the valve is
\* enabled and the pressure is 0 after the decrement; nothing else is appended.
C1_PlusMinusContract ==
  [][\A v \in DOMAIN valve :
       /\ (op'.name = "plus" /\ op'.i = v) =>
            /\ valve'[v].pressure = valve[v].pressure + 1
            /\ Appended = IF valve[v].enabled /\ valve[v].pressure = 0
                          THEN <<valve[v].open>> ELSE <<>>
       /\ (op'.name = "minus" /\ op'.i = v) =>
            /\ valve'[v].pressure = valve[v].pressure - 1
            /\ Appended = IF valve[v].enabled /\ valve'[v].pressure = 0
                          THEN <<valve[v].closed>> ELSE <<>>]_vars

\* a minus() has just brought an enabled valve back to pressure 0 and its closed
\* event is the newest pending event
C1_Witness ==
  /\ op.name = "minus"
  /\ valve[op.i].enabled
  /\ valve[op.i].pressure = 0
  /\ queue[EVENT_BUFFER] # <<>>
  /\ queue[EVENT_BUFFER][Len(queue[EVENT_BUFFER])] = valve[op.i].closed

\* C3: an enabled valve with start_pressure = -N appends its open event exactly on
\* the plus() that brings the count of plus() minus minus() calls since reset to
\* N+1, appends nothing on any other plus(), and appends its closed event exactly
\* on the minus() that brings that count back to N.
C3_AndGate ==
  [][\A v \in DOMAIN valve :
       LET N == 0 - valve[v].start_pressure
       IN valve[v].enabled =>
            /\ (op'.name = "plus" /\ op'.i = v) =>
                 Appended = IF net'[v] = N + 1 THEN <<valve[v].open>> ELSE <<>>
            /\ (op'.name = "minus" /\ op'.i = v) =>
                 Appended = IF net'[v] = N THEN <<valve[v].closed>> ELSE <<>>]_vars

\* the third plus() after a reset() of a valve with start_pressure -2 has appended
\* the open event
C3_Witness ==
  /\ op.name = "plus"
  /\ valve[op.i].start_pressure = -2
  /\ valve[op.i].enabled
  /\ net[op.i] = 3
  /\ hist[op.i].last = "open"
  /\ queue[EVENT_BUFFER] # <<>>
  /\ queue[EVENT_BUFFER][Len(queue[EVENT_BUFFER])] = valve[op.i].open

(***************************************************************************)
(* Two EventForkValves feeding one EventValve (the EventForkValve unit     *)
(* tests): fork 1 feeds valve 1, fork 2 feeds valves 2 and 1.              *)
(***************************************************************************)
InitFork ==
  /\ valve = (1 :> EventValve_init(-1, UP, EVENT_BUFFER, 0)) @@
             (2 :> EventValve_init(0, UP, EVENT_BUFFER, 0))
  /\ \E sp1 \in (0 - MaxBias)..0, sp2 \in (0 - MaxBias)..0 :
       fork = (1 :> EventForkValve_init(sp1, <<1>>)) @@
              (2 :> EventForkValve_init(sp2, <<2, 1>>))
  /\ queue = (EVENT_BUFFER :> <<>>)
  /\ hist = (1 :> NoHist) @@ (2 :> NoHist)
  /\ net = (1 :> 0) @@ (2 :> 0)
  /\ op = Call("init", 0, 0)
  /\ plumbing = <<>>
  /\ pressed = <<>>
  /\ added = <<>>

ForkPlus(f) ==
  /\ fork[f].pressure < MaxPressure
  /\ QueueBounded(EventForkValve_plus(Machine, f))
  /\ SetMachine(EventForkValve_plus(Machine, f))
  /\ op' = Call("fplus", 0, f)
  /\ UNCHANGED <<net, pressed, added>>

ForkMinus(f) ==
  /\ fork[f].pressure > 0 - MaxPressure
  /\ QueueBounded(EventForkValve_minus(Machine, f))
  /\ SetMachine(EventForkValve_minus(Machine, f))
  /\ op' = Call("fminus", 0, f)
  /\ UNCHANGED <<net, pressed, added>>

NextFork ==
  \/ \E f \in DOMAIN fork : ForkPlus(f)
  \/ \E f \in DOMAIN fork : ForkMinus(f)
  \/ PopLeft

SpecFork == InitFork /\ [][NextFork]_vars

\* the forks that are open: their pressure is above 0
OpenForks(fk) == {f \in DOMAIN fk : fk[f].pressure > 0}

\* the valves every fork feeds
SharedValves ==
  {v \in DOMAIN valve :
     \A f \in DOMAIN fork :
       \E i \in DOMAIN fork[f].output_valves : fork[f].output_valves[i] = v}

\* C4: a valve with start_pressure 0 fed by two forks appends exactly one open
\* event when the first of the forks opens, nothing when the second opens, and
\* its one closed event only when the last open fork closes.
C4_SharedOrValve ==
  [][op'.name \in {"fplus", "fminus"} =>
       \A v \in SharedValves :
         /\ CountOf(Appended, valve[v].open) =
              IF OpenForks(fork) = {} /\ OpenForks(fork') # {} THEN 1 ELSE 0
         /\ CountOf(Appended, valve[v].closed) =
              IF OpenForks(fork) # {} /\ OpenForks(fork') = {} THEN 1 ELSE 0]_vars

\* the second fork has just opened while the first was open: the shared valve is
\* at pressure 2 and the last event it appended is its open event
C4_Witness ==
  /\ op.name = "fplus"
  /\ OpenForks(fork) = DOMAIN fork
  /\ Cardinality(DOMAIN fork) = 2
  /\ \A v \in SharedValves :
       valve[v].pressure = 2 /\ hist[v].last = "open" /\ hist[v].n = 1
  /\ SharedValves # {}

(***************************************************************************)
(* The valves dict (ui.py 218-236), for the event names the model uses.    *)
(***************************************************************************)
EventNames ==
  <<"CANCEL", "QUIT", "UP", "P1_UP", "P1_BUTTON_0", "P1_LEFT", "P1_RIGHT", "P1_DOWN",
    "P1_UPLEFT", "P1_UPRIGHT", "P1_CENTER", "P1_BUTTON_1">>

\* (pid, evid) of a name: -1 for the names of control_events, the player for
\* "P<n>_<name>" of dance_events
NameEvent(name) ==
  CASE name = "CANCEL" -> <<-1, CANCEL>>
    [] name = "QUIT" -> <<-1, QUIT>>
    [] name = "UP" -> <<-1, UP>>
    [] name = "P1_UP" -> <<0, UP>>
    [] name = "P1_BUTTON_0" -> <<0, GENERIC_BUTTON + 0>>
    [] name = "P1_LEFT" -> <<0, LEFT>>
    [] name = "P1_RIGHT" -> <<0, RIGHT>>
    [] name = "P1_DOWN" -> <<0, DOWN>>
    [] name = "P1_UPLEFT" -> <<0, UPLEFT>>
    [] name = "P1_UPRIGHT" -> <<0, UPRIGHT>>
    [] name = "P1_CENTER" -> <<0, CENTER>>
    [] name = "P1_BUTTON_1" -> <<0, GENERIC_BUTTON + 1>>

\* valves[name]: the identity of the one prototype valve of that name
valves(name) == CHOOSE i \in DOMAIN EventNames : EventNames[i] = name

\* the prototype valves, all on ui.event_buffer with start pressure 0
InitValves ==
  [i \in DOMAIN EventNames |->
     EventValve_init(NameEvent(EventNames[i])[1], NameEvent(EventNames[i])[2],
                     EVENT_BUFFER, 0)]

(***************************************************************************)
(* EventPlumbing                                                           *)
(***************************************************************************)
\* a reference held in a container list: to an EventValve or an EventForkValve
VRef(v) == [t |-> "V", id |-> v]
FRef(f) == [t |-> "F", id |-> f]

Elems(seq) == {seq[i] : i \in DOMAIN seq}

RECURSIVE SetToSeq(_)
\* the elements of a set of numbers in ascending order
SetToSeq(S) ==
  IF S = {} THEN <<>>
  ELSE LET x == CHOOSE a \in S : \A b \in S : a <= b
       IN <<x>> \o SetToSeq(S \ {x})

\* the container is a list (indexes 0..len-1) or a dict (any keys)
MakeIndexValid(pb, idx) ==
  LET c == pb.container
      dom == IF pb.kind = "list" THEN (DOMAIN c) \cup (0..idx)
             ELSE (DOMAIN c) \cup {idx}
  IN [pb EXCEPT !.container =
        [i \in dom |-> IF i \in DOMAIN c THEN c[i] ELSE <<>>]]

RECURSIVE MakeAllValid(_, _)
MakeAllValid(pb, inputs) ==
  IF inputs = <<>> THEN pb
  ELSE MakeAllValid(MakeIndexValid(pb, Head(inputs)), Tail(inputs))

RECURSIVE AttachAll(_, _, _)
\* for i in inputs: self.container[i].append(x)
AttachAll(pb, inputs, x) ==
  IF inputs = <<>> THEN pb
  ELSE AttachAll([pb EXCEPT !.container[Head(inputs)] = Append(@, x)],
                 Tail(inputs), x)

\* mutant: an existing fork is looked for at the first input only
add_firstonly(m, p, inputs, valvename) ==
  LET nv == valves(valvename)
      pb == m.plumbing[p]
      c  == pb.container
  IN IF Len(inputs) = 1
     THEN LET i == inputs[1]
          IN IF i \in DOMAIN c /\ \E k \in DOMAIN c[i] :
                  c[i][k].t = "V" /\ m.valve[c[i][k].id].open = m.valve[nv].open
             THEN m
             ELSE [m EXCEPT !.plumbing[p] =
                     AttachAll(MakeIndexValid(pb, i), <<i>>, VRef(nv))]
     ELSE LET valid  == \A k \in DOMAIN inputs : inputs[k] \in DOMAIN c
              common == IF valid THEN Elems(c[inputs[1]]) ELSE {}
              cands  == {x \in common : x.t = "F" /\
                           m.fork[x.id].start_pressure = 1 - Len(inputs)}
          IN IF cands # {}
             THEN LET f == (CHOOSE x \in cands : TRUE).id
                  IN IF \E k \in DOMAIN m.fork[f].output_valves :
                          m.valve[m.fork[f].output_valves[k]].open = m.valve[nv].open
                     THEN m
                     ELSE [m EXCEPT !.fork[f].output_valves = Append(@, nv)]
             ELSE LET n == Cardinality(DOMAIN m.fork) + 1
                  IN [m EXCEPT
                        !.fork = @ @@ (n :> EventForkValve_init(1 - Len(inputs), <<nv>>)),
                        !.plumbing[p] = AttachAll(MakeAllValid(pb, inputs), inputs, FRef(n))]

\* mutant: the target valve is appended without looking for an equal connection
add_nodedup(m, p, inputs, valvename) ==
  LET nv == valves(valvename)
      pb == m.plumbing[p]
      c  == pb.container
  IN IF Len(inputs) = 1
     THEN [m EXCEPT !.plumbing[p] =
             AttachAll(MakeIndexValid(pb, inputs[1]), <<inputs[1]>>, VRef(nv))]
     ELSE LET valid  == \A k \in DOMAIN inputs : inputs[k] \in DOMAIN c
              common == IF valid
                        THEN {x \in Elems(c[inputs[1]]) :
                                \A k \in DOMAIN inputs : x \in Elems(c[inputs[k]])}
                        ELSE {}
              cands  == {x \in common : x.t = "F" /\
                           m.fork[x.id].start_pressure = 1 - Len(inputs)}
          IN IF cands # {}
             THEN LET f == (CHOOSE x \in cands : TRUE).id
                  IN [m EXCEPT !.fork[f].output_valves = Append(@, nv)]
             ELSE LET n == Cardinality(DOMAIN m.fork) + 1
                  IN [m EXCEPT
                        !.fork = @ @@ (n :> EventForkValve_init(1 - Len(inputs), <<nv>>)),
                        !.plumbing[p] = AttachAll(MakeAllValid(pb, inputs), inputs, FRef(n))]

\* inputs: the input indexes as listed; a list of one index is that index
\* mutant: any fork that all the inputs feed is taken, whatever its start pressure
add_nocount(m, p, inputs, valvename) ==
  LET nv == valves(valvename)
      pb == m.plumbing[p]
      c  == pb.container
  IN IF Len(inputs) = 1
     THEN LET i == inputs[1]
          IN IF i \in DOMAIN c /\ \E k \in DOMAIN c[i] :
                  c[i][k].t = "V" /\ m.valve[c[i][k].id].open = m.valve[nv].open
             THEN m
             ELSE [m EXCEPT !.plumbing[p] =
                     AttachAll(MakeIndexValid(pb, i), <<i>>, VRef(nv))]
     ELSE \* a missing index raises KeyError/IndexError: no existing connection
          LET valid  == \A k \in DOMAIN inputs : inputs[k] \in DOMAIN c
              common == IF valid
                        THEN {x \in Elems(c[inputs[1]]) :
                                \A k \in DOMAIN inputs : x \in Elems(c[inputs[k]])}
                        ELSE {}
              cands  == {x \in common : x.t = "F"}
          IN IF cands # {}
             THEN LET f == (CHOOSE x \in cands : TRUE).id
                  IN IF \E k \in DOMAIN m.fork[f].output_valves :
                          m.valve[m.fork[f].output_valves[k]].open = m.valve[nv].open
                     THEN m
                     ELSE [m EXCEPT !.fork[f].output_valves = Append(@, nv)]
             ELSE LET n == Cardinality(DOMAIN m.fork) + 1
                  IN [m EXCEPT
                        !.fork = @ @@ (n :> EventForkValve_init(1 - Len(inputs), <<nv>>)),
                        !.plumbing[p] = AttachAll(MakeAllValid(pb, inputs), inputs, FRef(n))]

add(m, p, inputs, valvename) ==
  LET nv == valves(valvename)
      pb == m.plumbing[p]
      c  == pb.container
  IN IF Len(inputs) = 1
     THEN LET i == inputs[1]
          IN IF i \in DOMAIN c /\ \E k \in DOMAIN c[i] :
                  c[i][k].t = "V" /\ m.valve[c[i][k].id].open = m.valve[nv].open
             THEN m
             ELSE [m EXCEPT !.plumbing[p] =
                     AttachAll(MakeIndexValid(pb, i), <<i>>, VRef(nv))]
     ELSE \* a missing index raises KeyError/IndexError: no existing connection
          LET valid  == \A k \in DOMAIN inputs : inputs[k] \in DOMAIN c
              common == IF valid
                        THEN {x \in Elems(c[inputs[1]]) :
                                \A k \in DOMAIN inputs : x \in Elems(c[inputs[k]])}
                        ELSE {}
              cands  == {x \in common : x.t = "F" /\
                           m.fork[x.id].start_pressure = 1 - Len(inputs)}
          IN IF cands # {}
             THEN LET f == (CHOOSE x \in cands : TRUE).id
                  IN IF \E k \in DOMAIN m.fork[f].output_valves :
                          m.valve[m.fork[f].output_valves[k]].open = m.valve[nv].open
                     THEN m
                     ELSE [m EXCEPT !.fork[f].output_valves = Append(@, nv)]
             ELSE LET n == Cardinality(DOMAIN m.fork) + 1
                  IN [m EXCEPT
                        !.fork = @ @@ (n :> EventForkValve_init(1 - Len(inputs), <<nv>>)),
                        !.plumbing[p] = AttachAll(MakeAllValid(pb, inputs), inputs, FRef(n))]

RECURSIVE AddOutputs(_, _, _, _)
\* for oword in output.split(): a leading "!" sets menuing_disabled
AddOutputs(m, p, inputs, outputs) ==
  IF outputs = <<>> THEN m
  ELSE LET o  == Head(outputs)
           m1 == IF o.bang THEN [m EXCEPT !.plumbing[p].menuing_disabled = TRUE]
                 ELSE m
       IN AddOutputs(add(m1, p, inputs, o.name), p, inputs, Tail(outputs))

RECURSIVE AddLines(_, _, _)
\* for line in blueprint.splitlines(): the inputs of a line are a set
AddLines(m, p, lines) ==
  IF lines = <<>> THEN m
  ELSE AddLines(AddOutputs(m, p, SetToSeq(Head(lines).inputs), Head(lines).outputs),
                p, Tail(lines))

\* EventPlumbing(container, blueprint), the container empty
EventPlumbing_init(m, p, kind, blueprint) ==
  AddLines([m EXCEPT !.plumbing = @ @@
              (p :> [container |-> <<>>, kind |-> kind, menuing_disabled |-> FALSE])],
           p, blueprint)

Node_plus(m, x) ==
  IF x.t = "V" THEN EventValve_plus(m, x.id) ELSE EventForkValve_plus(m, x.id)

Node_minus(m, x) ==
  IF x.t = "V" THEN EventValve_minus(m, x.id) ELSE EventForkValve_minus(m, x.id)

Node_reset(m, x) ==
  IF x.t = "V" THEN EventValve_reset(m, x.id) ELSE EventForkValve_reset(m, x.id)

\* mutant: the loop stops after the first entry of the list
PlusNodes_first(m, xs) ==
  IF xs = <<>> THEN m ELSE Node_plus(m, Head(xs))

RECURSIVE PlusNodes(_, _)
PlusNodes(m, xs) ==
  IF xs = <<>> THEN m ELSE PlusNodes(Node_plus(m, Head(xs)), Tail(xs))

RECURSIVE MinusNodes(_, _)
MinusNodes(m, xs) ==
  IF xs = <<>> THEN m ELSE MinusNodes(Node_minus(m, Head(xs)), Tail(xs))

RECURSIVE ResetNodes(_, _)
ResetNodes(m, xs) ==
  IF xs = <<>> THEN m ELSE ResetNodes(Node_reset(m, Head(xs)), Tail(xs))

\* mutant: an index the container does not hold stands for the highest it holds
EventPlumbing_plus_last(m, p, index) ==
  LET c == m.plumbing[p].container
  IN IF index \in DOMAIN c THEN PlusNodes(m, c[index])
     ELSE IF DOMAIN c = {} THEN m
     ELSE PlusNodes(m, c[CHOOSE i \in DOMAIN c : \A j \in DOMAIN c : j <= i])

\* an index the container does not hold raises KeyError/IndexError: pass
EventPlumbing_plus(m, p, index) ==
  IF index \in DOMAIN m.plumbing[p].container
  THEN PlusNodes(m, m.plumbing[p].container[index]) ELSE m

EventPlumbing_minus(m, p, index) ==
  IF index \in DOMAIN m.plumbing[p].container
  THEN MinusNodes(m, m.plumbing[p].container[index]) ELSE m

RECURSIVE FlattenFrom(_, _)
\* the (index, node) pairs of a container, indexes ascending
FlattenFrom(c, idxs) ==
  IF idxs = <<>> THEN <<>>
  ELSE [k \in DOMAIN c[Head(idxs)] |-> [idx |-> Head(idxs), x |-> c[Head(idxs)][k]]]
       \o FlattenFrom(c, Tail(idxs))

Flatten(c) == FlattenFrom(c, SetToSeq(DOMAIN c))

RECURSIVE ResetItems(_, _)
ResetItems(m, items) ==
  IF items = <<>> THEN m ELSE ResetItems(Node_reset(m, Head(items).x), Tail(items))

EventPlumbing_reset(m, p) == ResetItems(m, Flatten(m.plumbing[p].container))

RECURSIVE VisitFold_first(_, _, _, _)
\* mutant: a fork calls the visitor at the first index it is reached from
VisitFold_first(m, items, state, calls) ==
  IF items = <<>> THEN calls
  ELSE LET it == Head(items)
       IN IF it.x.t = "V"
          THEN VisitFold_first(m, Tail(items), state,
                               Append(calls, [inputs |-> <<it.idx>>, outputs |-> <<it.x.id>>]))
          ELSE IF it.x.id \in DOMAIN state
          THEN VisitFold_first(m, Tail(items), state, calls)
          ELSE VisitFold_first(m, Tail(items),
                               [g \in (DOMAIN state) \cup {it.x.id} |-> <<it.idx>>],
                               Append(calls, [inputs |-> <<it.idx>>,
                                              outputs |-> m.fork[it.x.id].output_valves]))

RECURSIVE VisitFold(_, _, _, _)
\* EventValve.visit calls the visitor at once; EventForkValve.visit collects the
\* indexes it is reached from and calls the visitor when it has -start_pressure+1
VisitFold(m, items, state, calls) ==
  IF items = <<>> THEN calls
  ELSE LET it == Head(items)
       IN IF it.x.t = "V"
          THEN VisitFold(m, Tail(items), state,
                         Append(calls, [inputs |-> <<it.idx>>, outputs |-> <<it.x.id>>]))
          ELSE LET f   == it.x.id
                   lst == (IF f \in DOMAIN state THEN state[f] ELSE <<>>) \o <<it.idx>>
               IN IF Len(lst) = 1 - m.fork[f].start_pressure
                  THEN VisitFold(m, Tail(items),
                                 [g \in (DOMAIN state) \ {f} |-> state[g]],
                                 Append(calls, [inputs |-> lst,
                                                outputs |-> m.fork[f].output_valves]))
                  ELSE VisitFold(m, Tail(items),
                                 [g \in (DOMAIN state) \cup {f} |->
                                    IF g = f THEN lst ELSE state[g]],
                                 calls)

\* the visitor.visit(inputs, outputs) calls of one EventPlumbing.visit, in order
visit(m, p) == VisitFold(m, Flatten(m.plumbing[p].container), <<>>, <<>>)

RECURSIVE MenuControlsEnabled_visit(_, _, _)
MenuControlsEnabled_visit(m, onoff, outputs) ==
  IF outputs = <<>> THEN m
  ELSE LET v  == Head(outputs)
           m1 == IF m.valve[v].open[1] < 0
                 THEN TouchIf(m.valve[v].enabled # onoff,
                              [m EXCEPT !.valve[v].enabled = onoff], v)
                 ELSE m
       IN MenuControlsEnabled_visit(m1, onoff, Tail(outputs))

RECURSIVE MenuControlsEnabled_all(_, _, _)
MenuControlsEnabled_all(m, onoff, calls) ==
  IF calls = <<>> THEN m
  ELSE MenuControlsEnabled_all(MenuControlsEnabled_visit(m, onoff, Head(calls).outputs),
                               onoff, Tail(calls))

menu_controls_enabled(m, p, onoff) ==
  MenuControlsEnabled_all([m EXCEPT !.plumbing[p].menuing_disabled = TRUE],
                          onoff, visit(m, p))

\* the events auto-repeat re-sends, of those the model has
REPEATABLE == {<<-1, UP>>, <<0, UP>>, <<0, DOWN>>, <<0, LEFT>>, <<0, RIGHT>>}

RECURSIVE RepeatEvent_visit_again(_, _)
\* a visitor that forgets which valves it has done
RepeatEvent_visit_again(r, outputs) ==
  IF outputs = <<>> THEN r
  ELSE LET v  == Head(outputs)
           r1 == IF r.m.valve[v].pressure > 0 /\ r.m.valve[v].open \in REPEATABLE
                 THEN [m |-> Emit(r.m, v, "open"), done |-> r.done \cup {v}]
                 ELSE r
       IN RepeatEvent_visit_again(r1, Tail(outputs))

RECURSIVE RepeatEvent_visit(_, _)
\* r is the heap r.m and the visitor's already_done
RepeatEvent_visit(r, outputs) ==
  IF outputs = <<>> THEN r
  ELSE LET v  == Head(outputs)
           r1 == IF r.m.valve[v].pressure > 0 /\ r.m.valve[v].open \in REPEATABLE
                    /\ v \notin r.done
                 THEN [m |-> Emit(r.m, v, "open"), done |-> r.done \cup {v}]
                 ELSE r
       IN RepeatEvent_visit(r1, Tail(outputs))

RECURSIVE RepeatEvent_all(_, _)
RepeatEvent_all(r, calls) ==
  IF calls = <<>> THEN r
  ELSE RepeatEvent_all(RepeatEvent_visit(r, Head(calls).outputs), Tail(calls))

\* plumbing.visit(RepeatEvent())
repeat_output(m, p) == RepeatEvent_all([m |-> m, done |-> {}], visit(m, p)).m

\* FindEvent.visit: the first valve of the outputs with that open event
FindEvent_visit(m, ev, outputs, found) ==
  LET hits == {k \in DOMAIN outputs : m.valve[outputs[k]].open = ev}
  IN IF hits = {} THEN found
     ELSE outputs[CHOOSE k \in hits : \A j \in hits : k <= j]

RECURSIVE FindEvent_all(_, _, _, _)
\* found.valve after plumbing.visit(found); 0 is None
FindEvent_all(m, ev, calls, found) ==
  IF calls = <<>> THEN found
  ELSE FindEvent_all(m, ev, Tail(calls), FindEvent_visit(m, ev, Head(calls).outputs, found))

RECURSIVE ReplaceEvent_visit(_, _, _, _)
ReplaceEvent_visit(m, old, new, outputs) ==
  IF outputs = <<>> THEN m
  ELSE LET v  == Head(outputs)
           m1 == IF m.valve[v].open = old
                 THEN [m EXCEPT !.valve[v].open = new,
                                !.valve[v].closed = <<new[1], 0 - new[2]>>]
                 ELSE m
       IN ReplaceEvent_visit(m1, old, new, Tail(outputs))

RECURSIVE ReplaceEvent_all(_, _, _, _)
ReplaceEvent_all(m, old, new, calls) ==
  IF calls = <<>> THEN m
  ELSE ReplaceEvent_all(ReplaceEvent_visit(m, old, new, Head(calls).outputs),
                        old, new, Tail(calls))

\* mutant: the pressure of a replaced valve is added at every place that held it
Count_perplace(r, x, newvalve) ==
  [r EXCEPT !.m = TouchIf(r.m.valve[x].pressure # 0,
                          [r.m EXCEPT !.valve[newvalve].pressure =
                                        @ + r.m.valve[x].pressure], newvalve),
            !.counted = @ \cup {x}]

\* newvalve.pressure += x.pressure, once for every replaced valve x; r is the heap
\* r.m and already_counted
Count(r, x, newvalve) ==
  IF x \in r.counted THEN r
  ELSE [r EXCEPT !.m = TouchIf(r.m.valve[x].pressure # 0,
                               [r.m EXCEPT !.valve[newvalve].pressure =
                                             @ + r.m.valve[x].pressure], newvalve),
                 !.counted = @ \cup {x}]

RECURSIVE ForkReplaceLoop(_, _, _, _, _, _)
\* the while loop of EventForkValve.replace_valve over the outputs not yet seen;
\* kept are the outputs the loop leaves in the list, have its flag
ForkReplaceLoop(r, rest, kept, have, oldpidevid, newvalve) ==
  IF rest = <<>> THEN [r |-> r, outs |-> kept]
  ELSE LET x   == Head(rest)
           hit == r.m.valve[x].open = oldpidevid
           r1  == IF hit THEN Count(r, x, newvalve) ELSE r
           y   == IF hit THEN newvalve ELSE x
       IN IF y = newvalve
          THEN ForkReplaceLoop(r1, Tail(rest), IF have THEN kept ELSE Append(kept, y),
                               TRUE, oldpidevid, newvalve)
          ELSE ForkReplaceLoop(r1, Tail(rest), Append(kept, y), have, oldpidevid, newvalve)

EventForkValve_replace_valve(r, f, oldpidevid, newvalve) ==
  LET l == ForkReplaceLoop(r, r.m.fork[f].output_valves, <<>>, FALSE, oldpidevid, newvalve)
  IN [l.r EXCEPT !.m.fork[f].output_valves = l.outs]

RECURSIVE ListReplaceLoop(_, _, _, _, _, _)
\* the while loop of EventPlumbing.replace_valve over the list at one index
ListReplaceLoop(r, rest, kept, have, oldpidevid, newvalve) ==
  IF rest = <<>> THEN [r |-> r, lst |-> kept]
  ELSE LET x == Head(rest)
       IN IF x.t = "F"
          THEN ListReplaceLoop(EventForkValve_replace_valve(r, x.id, oldpidevid, newvalve),
                               Tail(rest), Append(kept, x), have, oldpidevid, newvalve)
          ELSE LET hit == r.m.valve[x.id].open = oldpidevid
                   r1  == IF hit THEN Count(r, x.id, newvalve) ELSE r
                   y   == IF hit THEN newvalve ELSE x.id
               IN IF y = newvalve
                  THEN ListReplaceLoop(r1, Tail(rest),
                                       IF have THEN kept ELSE Append(kept, VRef(y)),
                                       TRUE, oldpidevid, newvalve)
                  ELSE ListReplaceLoop(r1, Tail(rest), Append(kept, VRef(y)), have,
                                       oldpidevid, newvalve)

RECURSIVE ReplaceIndexes(_, _, _, _, _)
\* for idx in iter
ReplaceIndexes(r, p, idxs, oldpidevid, newvalve) ==
  IF idxs = <<>> THEN r
  ELSE LET idx == Head(idxs)
           l   == ListReplaceLoop(r, r.m.plumbing[p].container[idx], <<>>, FALSE,
                                  oldpidevid, newvalve)
       IN ReplaceIndexes([l.r EXCEPT !.m.plumbing[p].container[idx] = l.lst],
                         p, Tail(idxs), oldpidevid, newvalve)

replace_valve(m, p, oldpidevid, newvalve) ==
  ReplaceIndexes([m |-> m, counted |-> {}], p,
                 SetToSeq(DOMAIN m.plumbing[p].container), oldpidevid, newvalve).m

\* UI._learn_generic_button on the plumbing of controller 0: the valve bound to
\* (pid, evid) takes the place of those bound to old, or, if the plumbing has
\* none, those bound to old are bound to (pid, evid)
learn_generic_button_none(m, p, old, new) == m

\* _learn_generic_button that always rewrites the event in place
learn_generic_button_inplace(m, p, old, new) ==
  ReplaceEvent_all(m, old, new, visit(m, p))

learn_generic_button(m, p, old, new) ==
  LET found == FindEvent_all(m, new, visit(m, p), 0)
  IN IF found # 0 THEN replace_valve(m, p, old, found)
     ELSE ReplaceEvent_all(m, old, new, visit(m, p))

\* pid & ~PLAYERS_MASK and pid & PLAYERS_MASK, of any integer as Python has them
HighBits(pid) == pid - (pid % (PLAYERS_MASK + 1))
LowBits(pid) == pid % (PLAYERS_MASK + 1)

\* what PIDTransposer does to one valve it has not yet done
Transposed(vl, adder) ==
  IF vl.open[1] >= 0
  THEN LET pid == HighBits(vl.open[1]) + LowBits(vl.open[1] + adder)
       IN [vl EXCEPT !.open = <<pid, vl.open[2]>>, !.closed = <<pid, vl.closed[2]>>]
  ELSE vl

RECURSIVE PIDTransposer_visit_nodone(_, _, _)
\* mutant: the visitor does not remember the valves it has done
PIDTransposer_visit_nodone(r, adder, outputs) ==
  IF outputs = <<>> THEN r
  ELSE PIDTransposer_visit_nodone(
         [r EXCEPT !.m.valve[Head(outputs)] = Transposed(@, adder)], adder, Tail(outputs))

RECURSIVE PIDTransposer_visit(_, _, _)
\* r is the heap r.m and the visitor's done
PIDTransposer_visit(r, adder, outputs) ==
  IF outputs = <<>> THEN r
  ELSE LET v  == Head(outputs)
           r1 == IF v \notin r.done
                 THEN [m |-> [r.m EXCEPT !.valve[v] = Transposed(@, adder)],
                       done |-> r.done \cup {v}]
                 ELSE r
       IN PIDTransposer_visit(r1, adder, Tail(outputs))

RECURSIVE PIDTransposer_all(_, _, _)
PIDTransposer_all(r, adder, calls) ==
  IF calls = <<>> THEN r
  ELSE PIDTransposer_all(PIDTransposer_visit(r, adder, Head(calls).outputs),
                         adder, Tail(calls))

\* self.visit(PIDTransposer(adder))
transpose_player(m, p, adder) ==
  PIDTransposer_all([m |-> m, done |-> {}], adder, visit(m, p)).m

(***************************************************************************)
(* The blueprint text: a line is its input words and its output words.  An *)
(* input word is a number, an axis word (letter a, state s: 0 "-", 1 "0",  *)
(* 2 "+") or a word that is neither; a line without "=" or with nothing    *)
(* after it has no output words.                                           *)
(***************************************************************************)
Num(n) == [k |-> "num", n |-> n, a |-> 0, s |-> 0]
Axis(a, s) == [k |-> "axis", n |-> 0, a |-> a, s |-> s]
BadWord == [k |-> "bad", n |-> 0, a |-> 0, s |-> 0]

\* the index an input word stands for
WordIndex(w) == IF w.k = "num" THEN w.n ELSE MAX_BUTTONS + w.a * 3 + w.s

RECURSIVE ParseOutputs(_, _, _, _)
\* for oword in output.split(): self.add(inputset, oword), which raises
\* SyntaxError for a name that valves does not have
ParseOutputs(r, p, inputs, outputs) ==
  IF outputs = <<>> THEN r
  ELSE LET o  == Head(outputs)
           m1 == IF o.bang THEN [r.m EXCEPT !.plumbing[p].menuing_disabled = TRUE]
                 ELSE r.m
       IN IF o.name \notin Elems(EventNames)
          THEN [r EXCEPT !.m = m1, !.err = "Invalid event name"]
          ELSE ParseOutputs([r EXCEPT !.m = add(m1, p, inputs, o.name)], p, inputs,
                            Tail(outputs))

RECURSIVE ParseLines(_, _, _)
\* for line in blueprint.splitlines(); r is the heap r.m, the SyntaxError raised
\* (r.err) and is_keyboard
ParseLines(r, p, lines) ==
  IF lines = <<>> \/ r.err # "none" THEN r
  ELSE LET line == Head(lines)
           kb   == \E k \in DOMAIN line.inputs :
                     line.inputs[k].k = "num" /\ line.inputs[k].n >= MAX_BUTTONS
       IN IF line.outputs = <<>>
          THEN [r EXCEPT !.err = "Missing '=' or empty right side"]
          ELSE IF line.inputs = <<>>
          THEN [r EXCEPT !.err = "Empty left side"]
          ELSE IF \E k \in DOMAIN line.inputs : line.inputs[k].k = "bad"
          THEN [r EXCEPT !.err = "Invalid axis state descriptor"]
          ELSE ParseLines(
                 ParseOutputs([r EXCEPT !.is_keyboard = @ \/ kb], p,
                              SetToSeq({WordIndex(line.inputs[k]) : k \in DOMAIN line.inputs}),
                              line.outputs),
                 p, Tail(lines))

\* EventPlumbing(container, blueprint) on the text, the container empty
EventPlumbing_parse(m, p, kind, text) ==
  ParseLines([m |-> [m EXCEPT !.plumbing = @ @@
                       (p :> [container |-> <<>>, kind |-> kind,
                              menuing_disabled |-> FALSE])],
              err |-> "none", is_keyboard |-> FALSE], p, text)

\* the word PlumbingStringer writes for an index
InputString(i, is_keyboard) ==
  IF i >= MAX_BUTTONS /\ ~is_keyboard
  THEN Axis((i - MAX_BUTTONS) \div 3, (i - MAX_BUTTONS) % 3)
  ELSE Num(i)

\* valvenames[(pid, evid)]
valvenames(ev) == CHOOSE name \in Elems(EventNames) : NameEvent(name) = ev

\* OutputStrings that stops after the first output
OutputStrings_first(m, outputs) ==
  IF outputs = <<>> \/ m.valve[Head(outputs)].open[2] = PASS THEN <<>>
  ELSE <<[name |-> valvenames(<<IF m.valve[Head(outputs)].open[1] > 0
                                 THEN LowBits(m.valve[Head(outputs)].open[1])
                                 ELSE m.valve[Head(outputs)].open[1],
                                m.valve[Head(outputs)].open[2]>>),
          bang |-> ~m.valve[Head(outputs)].enabled]>>

RECURSIVE OutputStrings(_, _)
\* the output words of PlumbingStringer.visit: none for a valve open to PASS
OutputStrings(m, outputs) ==
  IF outputs = <<>> THEN <<>>
  ELSE LET vl  == m.valve[Head(outputs)]
           pid == IF vl.open[1] > 0 THEN LowBits(vl.open[1]) ELSE vl.open[1]
       IN (IF vl.open[2] # PASS
           THEN <<[name |-> valvenames(<<pid, vl.open[2]>>), bang |-> ~vl.enabled]>>
           ELSE <<>>)
          \o OutputStrings(m, Tail(outputs))

RECURSIVE PlumbingStringer_all(_, _, _)
\* pbs.lines after self.visit(pbs)
PlumbingStringer_all(m, is_keyboard, calls) ==
  IF calls = <<>> THEN <<>>
  ELSE LET c   == Head(calls)
           ins == [k \in DOMAIN c.inputs |-> InputString(c.inputs[k], is_keyboard)]
           out == OutputStrings(m, c.outputs)
       IN (IF out # <<>> /\ ins # <<>> THEN <<[inputs |-> ins, outputs |-> out]>> ELSE <<>>)
          \o PlumbingStringer_all(m, is_keyboard, Tail(calls))

\* repr(pb), as lines
repr(m, p, is_keyboard) == PlumbingStringer_all(m, is_keyboard, visit(m, p))

(***************************************************************************)
(* copy.deepcopy of an EventPlumbing.  d is the state of one deepcopy call: *)
(* the heap, the memo (original -> copy) and what the last step returned.  *)
(***************************************************************************)
\* mutant: the event list is copied with the valve
CopyValve_deepqueue(d, v) ==
  IF v \in DOMAIN d.memoV THEN [d EXCEPT !.ret = d.memoV[v]]
  ELSE LET n == Cardinality(DOMAIN d.m.valve) + 1
           q == Cardinality(DOMAIN d.m.queue)
       IN [d EXCEPT !.m.valve = @ @@ (n :> [d.m.valve[v] EXCEPT !.evlist = q]),
                    !.m.queue = @ @@ (q :> d.m.queue[d.m.valve[v].evlist]),
                    !.m.hist = IF v \in DOMAIN @ THEN @ @@ (n :> NoHist) ELSE @,
                    !.memoV = @ @@ (v :> n),
                    !.ret = n]

\* mutant: __deepcopy__ returns self
CopyValve_self(d, v) == [d EXCEPT !.ret = v]

\* EventValve.__deepcopy__: copy(self), which keeps the evlist reference;
\* deepcopy looks the object up in its memo first and enters the copy after
CopyValve(d, v) ==
  IF v \in DOMAIN d.memoV THEN [d EXCEPT !.ret = d.memoV[v]]
  ELSE LET n == Cardinality(DOMAIN d.m.valve) + 1
       IN [d EXCEPT !.m.valve = @ @@ (n :> d.m.valve[v]),
                    !.m.hist = IF v \in DOMAIN @ THEN @ @@ (n :> NoHist) ELSE @,
                    !.memoV = @ @@ (v :> n),
                    !.ret = n]

RECURSIVE CopyValveList(_, _)
\* the deep copy of an output_valves list, left in d.outs
CopyValveList(d, vs) ==
  IF vs = <<>> THEN [d EXCEPT !.outs = <<>>]
  ELSE LET d1 == CopyValve(d, Head(vs))
           d2 == CopyValveList(d1, Tail(vs))
       IN [d2 EXCEPT !.outs = <<d1.ret>> \o d2.outs]

\* mutant: deepcopy without its memo: every reference gets a copy of its own
CopyFork_nomemo(d, f) ==
  LET n  == Cardinality(DOMAIN d.m.fork) + 1
      d1 == [d EXCEPT !.m.fork = @ @@ (n :> d.m.fork[f])]
      d2 == CopyValveList(d1, d.m.fork[f].output_valves)
  IN [d2 EXCEPT !.m.fork[n].output_valves = d2.outs, !.ret = n]

\* an EventForkValve has no __deepcopy__: a new object with its fields deep-copied
CopyFork(d, f) ==
  IF f \in DOMAIN d.memoF THEN [d EXCEPT !.ret = d.memoF[f]]
  ELSE LET n  == Cardinality(DOMAIN d.m.fork) + 1
           d1 == [d EXCEPT !.memoF = @ @@ (f :> n),
                           !.m.fork = @ @@ (n :> d.m.fork[f])]
           d2 == CopyValveList(d1, d.m.fork[f].output_valves)
       IN [d2 EXCEPT !.m.fork[n].output_valves = d2.outs, !.ret = n]

RECURSIVE CopyNodeList(_, _)
\* the deep copy of one list of the container, left in d.nodes
CopyNodeList(d, xs) ==
  IF xs = <<>> THEN [d EXCEPT !.nodes = <<>>]
  ELSE LET x  == Head(xs)
           d1 == IF x.t = "V" THEN CopyValve(d, x.id) ELSE CopyFork(d, x.id)
           d2 == CopyNodeList(d1, Tail(xs))
       IN [d2 EXCEPT !.nodes = <<[t |-> x.t, id |-> d1.ret]>> \o d2.nodes]

RECURSIVE CopyContainer(_, _, _)
\* the deep copy of the container, left in d.cont
CopyContainer(d, c, idxs) ==
  IF idxs = <<>> THEN [d EXCEPT !.cont = <<>>]
  ELSE LET d1 == CopyNodeList(d, c[Head(idxs)])
           d2 == CopyContainer(d1, c, Tail(idxs))
       IN [d2 EXCEPT !.cont = (Head(idxs) :> d1.nodes) @@ d2.cont]

\* c = deepcopy(self): plumbing c is the copy of plumbing p
deepcopy(m, p, c) ==
  LET d0 == [m |-> m, memoV |-> <<>>, memoF |-> <<>>, ret |-> 0,
             outs |-> <<>>, nodes |-> <<>>, cont |-> <<>>]
      d  == CopyContainer(d0, m.plumbing[p].container,
                          SetToSeq(DOMAIN m.plumbing[p].container))
  IN [d.m EXCEPT !.plumbing = @ @@ (c :> [m.plumbing[p] EXCEPT !.container = d.cont])]

\* mutant: copy(self) in place of deepcopy(self): the lists and nodes are shared
clone_shallow(m, p, c) ==
  LET m1 == [m EXCEPT !.plumbing = @ @@ (c :> m.plumbing[p])]
  IN IF m.plumbing[p].menuing_disabled THEN menu_controls_enabled(m1, c, FALSE) ELSE m1

\* mutant: the menuing_disabled marker is not acted on
clone_nomarker(m, p, c) == deepcopy(m, p, c)

clone(m, p, c) ==
  LET m1 == deepcopy(m, p, c)
  IN IF m.plumbing[p].menuing_disabled THEN menu_controls_enabled(m1, c, FALSE) ELSE m1

(***************************************************************************)
(* Building a template: add() calls on an empty EventPlumbing.             *)
(***************************************************************************)
\* the identity of the template; that of its clone
TEMPLATE == 1
CLONE == 2

\* a template is built with at most MaxAdds add() calls
MaxAdds == 3

\* the input lists add() is called with
AddInputs == {<<0>>, <<0, 1>>, <<1, 0>>, <<1, 2>>, <<2, 0, 1>>}

\* the event names add() is called with
AddNames == {"QUIT", "P1_UP"}

\* the heap at process start: the prototype valves and ui.event_buffer
FreshMachine ==
  [valve |-> InitValves, fork |-> <<>>, queue |-> (EVENT_BUFFER :> <<>>),
   hist |-> [i \in DOMAIN InitValves |-> NoHist], plumbing |-> <<>>]

InitBuild ==
  /\ \E kind \in {"list", "dict"} :
       /\ valve = EventPlumbing_init(FreshMachine, TEMPLATE, kind, <<>>).valve
       /\ fork = EventPlumbing_init(FreshMachine, TEMPLATE, kind, <<>>).fork
       /\ queue = EventPlumbing_init(FreshMachine, TEMPLATE, kind, <<>>).queue
       /\ hist = EventPlumbing_init(FreshMachine, TEMPLATE, kind, <<>>).hist
       /\ plumbing = EventPlumbing_init(FreshMachine, TEMPLATE, kind, <<>>).plumbing
  /\ net = <<>>
  /\ op = Call("init", 0, 0)
  /\ pressed = <<>>
  /\ added = <<>>

Add(inputs, valvename) ==
  /\ Len(added) < MaxAdds
  /\ SetMachine(add(Machine, TEMPLATE, inputs, valvename))
  /\ added' = Append(added, [inputs |-> inputs, name |-> valvename])
  /\ op' = Call("add", TEMPLATE, Len(inputs))
  /\ UNCHANGED <<net, pressed>>

NextBuild == \E inputs \in AddInputs, valvename \in AddNames : Add(inputs, valvename)

SpecBuild == InitBuild /\ [][NextBuild]_vars

\* the orderings of a list of distinct elements
Orderings(seq) ==
  {s \in [DOMAIN seq -> Elems(seq)] : \A i, j \in DOMAIN seq : s[i] = s[j] => i = j}

\* the indexes whose list holds node x, and how often list i holds it
IndexesOf(m, p, x) ==
  {i \in DOMAIN m.plumbing[p].container : x \in Elems(m.plumbing[p].container[i])}

TimesIn(seq, x) == Cardinality({k \in DOMAIN seq : seq[k] = x})

\* the forks a plumbing's container refers to
ForksOf(m, p) ==
  {x.id : x \in {y \in UNION {Elems(m.plumbing[p].container[i]) :
                                i \in DOMAIN m.plumbing[p].container} : y.t = "F"}}

\* C6: adding a connection again, with the inputs listed in any order, leaves the
\* network as it is; a single input's list holds exactly one valve with the binding;
\* a multi-input set has exactly one fork, attached once at exactly those indexes,
\* with the target exactly once among its outputs.
C6_AddIdempotent ==
  \A n \in DOMAIN added :
    LET a  == added[n]
        c  == plumbing[TEMPLATE].container
        b  == valve[valves(a.name)].open
        fs == {f \in ForksOf(Machine, TEMPLATE) :
                 IndexesOf(Machine, TEMPLATE, FRef(f)) = Elems(a.inputs)}
    IN /\ \A r \in Orderings(a.inputs) : add(Machine, TEMPLATE, r, a.name) = Machine
       /\ Len(a.inputs) = 1 =>
            Cardinality({k \in DOMAIN c[a.inputs[1]] :
                           c[a.inputs[1]][k].t = "V" /\
                           valve[c[a.inputs[1]][k].id].open = b}) = 1
       /\ Len(a.inputs) > 1 =>
            /\ Cardinality(fs) = 1
            /\ \A f \in fs :
                 /\ \A i \in Elems(a.inputs) : TimesIn(c[i], FRef(f)) = 1
                 /\ Cardinality({k \in DOMAIN fork[f].output_valves :
                                   valve[fork[f].output_valves[k]].open = b}) = 1

\* the same two-input connection was added twice, the inputs listed both ways
C6_Witness ==
  \E i, j \in DOMAIN added :
    /\ i < j
    /\ Len(added[i].inputs) = 2
    /\ added[j].inputs = <<added[i].inputs[2], added[i].inputs[1]>>
    /\ added[j].name = added[i].name
    /\ Cardinality(DOMAIN fork) = 1

\* what a network is, whatever the order of its lists and the identity of its
\* forks: per index the valves attached (with how often), and the forks as
\* (indexes, start pressure, output valves) with how many forks are alike
ForkShape(m, p, f) ==
  [inputs |-> IndexesOf(m, p, FRef(f)),
   times  |-> [i \in IndexesOf(m, p, FRef(f)) |->
                 TimesIn(m.plumbing[p].container[i], FRef(f))],
   bias   |-> m.fork[f].start_pressure,
   outs   |-> [v \in Elems(m.fork[f].output_valves) |->
                 TimesIn(m.fork[f].output_valves, v)]]

Shape(m, p) ==
  LET c == m.plumbing[p].container
  IN [direct |-> [i \in DOMAIN c |->
                    [v \in {x.id : x \in {y \in Elems(c[i]) : y.t = "V"}} |->
                       TimesIn(c[i], VRef(v))]],
      forks  |-> [sh \in {ForkShape(m, p, f) : f \in ForksOf(m, p)} |->
                    Cardinality({f \in ForksOf(m, p) : ForkShape(m, p, f) = sh})],
      marker |-> m.plumbing[p].menuing_disabled]

RECURSIVE AddCalls(_, _, _)
\* the add() calls of a list, made in order
AddCalls(m, p, calls) ==
  IF calls = <<>> THEN m
  ELSE AddCalls(add(m, p, Head(calls).inputs, Head(calls).name), p, Tail(calls))

EmptyTemplate == EventPlumbing_init(FreshMachine, TEMPLATE, plumbing[TEMPLATE].kind, <<>>)

\* one blueprint line per distinct input set, with all the outputs added for it
GroupedLines ==
  LET sets == {Elems(added[n].inputs) : n \in DOMAIN added}
      line(S) == [inputs |-> S,
                  outputs |-> [k \in 1..Len(SelectSeq(added, LAMBDA a : Elems(a.inputs) = S)) |->
                     [name |-> SelectSeq(added, LAMBDA a : Elems(a.inputs) = S)[k].name,
                      bang |-> FALSE]]]
      RECURSIVE lines(_)
      lines(SS) == IF SS = {} THEN <<>>
                   ELSE LET S == CHOOSE T \in SS : TRUE
                        IN <<line(S)>> \o lines(SS \ {S})
  IN lines(sets)

\* C7: the add() calls made in any other order, with the inputs of each listed in
\* ascending order, or written as one blueprint line per input set, build the same
\* network: the same forks (indexes, start pressure, outputs) and the same valves
\* at every index.
C7_AddOrderIndependent ==
  /\ \A perm \in Orderings([n \in DOMAIN added |-> n]) :
       Shape(AddCalls(EmptyTemplate, TEMPLATE, [n \in DOMAIN added |-> added[perm[n]]]),
             TEMPLATE) = Shape(Machine, TEMPLATE)
  /\ Shape(AddCalls(EmptyTemplate, TEMPLATE,
                    [n \in DOMAIN added |->
                       [inputs |-> SetToSeq(Elems(added[n].inputs)),
                        name |-> added[n].name]]),
           TEMPLATE) = Shape(Machine, TEMPLATE)
  /\ Shape(EventPlumbing_init(FreshMachine, TEMPLATE, plumbing[TEMPLATE].kind, GroupedLines),
           TEMPLATE) = Shape(Machine, TEMPLATE)

\* three connections were added, two of them sharing an input, to different outputs
C7_Witness ==
  /\ Len(added) = 3
  /\ Elems(added[1].inputs) = {0, 1}
  /\ Elems(added[2].inputs) = {1, 2}
  /\ Elems(added[3].inputs) = {0, 1}
  /\ added[1].name # added[3].name
  /\ Cardinality(DOMAIN fork) = 2

(***************************************************************************)
(* A template built from a blueprint, its clone, and both in use.          *)
(***************************************************************************)
\* one output word of a blueprint line, with or without a leading "!"
Out(name) == [name |-> name, bang |-> FALSE]
Bang(name) == [name |-> name, bang |-> TRUE]

\* 0 1 = P1_UP QUIT / 0 = P1_UP / 1 = P1_BUTTON_0
BlueprintA ==
  << [inputs |-> {0, 1}, outputs |-> <<Out("P1_UP"), Out("QUIT")>>],
     [inputs |-> {0},    outputs |-> <<Out("P1_UP")>>],
     [inputs |-> {1},    outputs |-> <<Out("P1_BUTTON_0")>>] >>

\* 0 = !UP P1_BUTTON_0 / 1 = P1_UP / 0 1 = P1_UP
BlueprintB ==
  << [inputs |-> {0},    outputs |-> <<Bang("UP"), Out("P1_BUTTON_0")>>],
     [inputs |-> {1},    outputs |-> <<Out("P1_UP")>>],
     [inputs |-> {0, 1}, outputs |-> <<Out("P1_UP")>>] >>

\* EventPlumbing([], BlueprintA) and EventPlumbing({}, BlueprintB)
Configs ==
  { [kind |-> "list", blueprint |-> BlueprintA],
    [kind |-> "dict", blueprint |-> BlueprintB] }

\* the indexes plus() and minus() are called with
Indexes == {0, 1}

\* the EventForkValves and the EventValves a plumbing reaches
ForkSet(m, p) ==
  LET c == m.plumbing[p].container
  IN UNION {{c[i][k].id : k \in {j \in DOMAIN c[i] : c[i][j].t = "F"}} : i \in DOMAIN c}

ValveSet(m, p) ==
  LET c == m.plumbing[p].container
  IN UNION {{c[i][k].id : k \in {j \in DOMAIN c[i] : c[i][j].t = "V"}} : i \in DOMAIN c}
     \cup UNION {Elems(m.fork[f].output_valves) : f \in ForkSet(m, p)}

\* the places of a plumbing that hold a reference: <<index, k, 0>> is the k-th
\* entry of the list at an index, <<index, k, o>> the o-th output of the fork there
Slots(m, p) ==
  LET c == m.plumbing[p].container
  IN UNION {UNION {{<<i, k, 0>>} \cup
                   (IF c[i][k].t = "F"
                    THEN {<<i, k, o>> : o \in DOMAIN m.fork[c[i][k].id].output_valves}
                    ELSE {}) : k \in DOMAIN c[i]} : i \in DOMAIN c}

\* the reference a place holds
At(m, p, s) ==
  LET x == m.plumbing[p].container[s[1]][s[2]]
  IN IF s[3] = 0 THEN x ELSE VRef(m.fork[x.id].output_valves[s[3]])

RECURSIVE CallsOf(_)
\* the add() calls the constructor makes for a blueprint
CallsOf(lines) ==
  IF lines = <<>> THEN <<>>
  ELSE [k \in DOMAIN Head(lines).outputs |->
          [inputs |-> SetToSeq(Head(lines).inputs), name |-> Head(lines).outputs[k].name]]
       \o CallsOf(Tail(lines))

\* the template built from one of the blueprints; no valve is observed (hist)
Init ==
  /\ \E cf \in Configs :
       /\ valve = EventPlumbing_init(FreshMachine, TEMPLATE, cf.kind, cf.blueprint).valve
       /\ fork = EventPlumbing_init(FreshMachine, TEMPLATE, cf.kind, cf.blueprint).fork
       /\ queue = EventPlumbing_init(FreshMachine, TEMPLATE, cf.kind, cf.blueprint).queue
       /\ hist = <<>>
       /\ plumbing = EventPlumbing_init(FreshMachine, TEMPLATE, cf.kind, cf.blueprint).plumbing
       /\ added = CallsOf(cf.blueprint)
  /\ net = <<>>
  /\ op = Call("init", 0, 0)
  /\ pressed = (TEMPLATE :> {})

\* c = template.clone().  No call on a plumbing reads the pending events; the
\* calls are taken when none is pending, which is when UI.poll() pumps input
Clone ==
  /\ CLONE \notin DOMAIN plumbing
  /\ queue[EVENT_BUFFER] = <<>>
  /\ SetMachine(clone(Machine, TEMPLATE, CLONE))
  /\ pressed' = pressed @@ (CLONE :> {})
  /\ op' = Call("clone", CLONE, 0)
  /\ UNCHANGED <<net, added>>

\* the driver of plumbing p (Controller.pressed, a KEYDOWN) raises an index that
\* it does not hold raised
Plus(p, index) ==
  /\ index \notin pressed[p]
  /\ queue[EVENT_BUFFER] = <<>>
  /\ SetMachine(EventPlumbing_plus(Machine, p, index))
  /\ pressed' = [pressed EXCEPT ![p] = @ \cup {index}]
  /\ op' = Call("pplus", p, index)
  /\ UNCHANGED <<net, added>>

\* the driver of plumbing p (Controller.released, a KEYUP) lowers an index that
\* it holds raised
Minus(p, index) ==
  /\ index \in pressed[p]
  /\ queue[EVENT_BUFFER] = <<>>
  /\ SetMachine(EventPlumbing_minus(Machine, p, index))
  /\ pressed' = [pressed EXCEPT ![p] = @ \ {index}]
  /\ op' = Call("pminus", p, index)
  /\ UNCHANGED <<net, added>>

\* pb.reset(), after which the driver raises from nothing again, as the
\* stimulation test does and as Controller.reset() clears button_state
Reset(p) ==
  /\ queue[EVENT_BUFFER] = <<>>
  /\ SetMachine(EventPlumbing_reset(Machine, p))
  /\ pressed' = [pressed EXCEPT ![p] = {}]
  /\ op' = Call("preset", p, 0)
  /\ UNCHANGED <<net, added>>

\* pb.menu_controls_enabled(onoff)
MenuControlsEnabled(p, onoff) ==
  /\ queue[EVENT_BUFFER] = <<>>
  /\ SetMachine(menu_controls_enabled(Machine, p, onoff))
  /\ op' = Call("menable", p, IF onoff THEN 1 ELSE 0)
  /\ UNCHANGED <<net, pressed, added>>

\* self.repeat_output(), for one plumbing
RepeatOutput(p) ==
  /\ queue[EVENT_BUFFER] = <<>>
  /\ SetMachine(repeat_output(Machine, p))
  /\ op' = Call("repeat", p, 0)
  /\ UNCHANGED <<net, pressed, added>>

\* the generic buttons that are learned, and what they are learned to be: the UP
\* of the player, or independent of the directions (PASS)
Generic == {<<0, GENERIC_BUTTON + 0>>}
Learned == {<<0, UP>>, <<-1, PASS>>}

\* self._learn_generic_button(0, oldpid, oldevid, pid, evid), of a generic button
\* that the plumbing has a valve for
Learn(p, old, new) ==
  /\ queue[EVENT_BUFFER] = <<>>
  /\ \E v \in ValveSet(Machine, p) : valve[v].open = old
  /\ SetMachine(learn_generic_button(Machine, p, old, new))
  /\ op' = Call("learn", p, 0)
  /\ UNCHANGED <<net, pressed, added>>

Next ==
  \/ Clone
  \/ \E p \in DOMAIN pressed, index \in Indexes : Plus(p, index)
  \/ \E p \in DOMAIN pressed, index \in Indexes : Minus(p, index)
  \/ \E p \in DOMAIN pressed : Reset(p)
  \/ \E p \in DOMAIN pressed, onoff \in BOOLEAN : MenuControlsEnabled(p, onoff)
  \/ \E p \in DOMAIN pressed, old \in Generic, new \in Learned : Learn(p, old, new)
  \/ PopLeft

Spec == Init /\ [][Next]_vars

\* the calls that work on one plumbing
PlumbingCalls == {"pplus", "pminus", "preset", "menable", "repeat", "learn"}

\* C8: the clone shares no EventForkValve and no EventValve with the plumbing it
\* was cloned from, and plus(), minus(), reset() and menu_controls_enabled() on
\* either leave every valve and fork of the other as they were.
C8_CloneIndependent ==
  [][(CLONE \in DOMAIN plumbing') =>
       /\ ValveSet(Machine', TEMPLATE) \cap ValveSet(Machine', CLONE) = {}
       /\ ForkSet(Machine', TEMPLATE) \cap ForkSet(Machine', CLONE) = {}
       /\ \A p \in {TEMPLATE, CLONE} :
            (op'.name \in PlumbingCalls /\ op'.p # p) =>
               /\ \A v \in ValveSet(Machine, p) : valve'[v] = valve[v]
               /\ \A f \in ForkSet(Machine, p) : fork'[f] = fork[f]]_vars

\* the template has been raised at an index while its clone is held raised at
\* another: the two differ in their pressures
C8_Witness ==
  /\ CLONE \in DOMAIN plumbing
  /\ op.name = "pplus" /\ op.p = TEMPLATE
  /\ pressed[CLONE] # {}
  /\ pressed[CLONE] # pressed[TEMPLATE]
  /\ \E v \in ValveSet(Machine, TEMPLATE) : valve[v].pressure > 0
  /\ \E f \in ForkSet(Machine, CLONE) : fork[f].pressure = fork[f].start_pressure + 1

\* the clone m.plumbing[c] mirrors m.plumbing[p]: the same places, two places
\* holding one object in the one exactly when they do in the other, every copy
\* with the fields of its original, every valve on the event list of its original
Mirrors(m, p, c) ==
  /\ Slots(m, p) = Slots(m, c)
  /\ \A a \in Slots(m, p) :
       /\ At(m, p, a).t = At(m, c, a).t
       /\ At(m, p, a).id # At(m, c, a).id
       /\ \A b \in Slots(m, p) :
            (At(m, p, a) = At(m, p, b)) <=> (At(m, c, a) = At(m, c, b))
       /\ At(m, p, a).t = "F" =>
            /\ m.fork[At(m, c, a).id].pressure = m.fork[At(m, p, a).id].pressure
            /\ m.fork[At(m, c, a).id].start_pressure = m.fork[At(m, p, a).id].start_pressure
       /\ At(m, p, a).t = "V" =>
            /\ m.valve[At(m, c, a).id].evlist = m.valve[At(m, p, a).id].evlist
            /\ m.valve[At(m, c, a).id].open = m.valve[At(m, p, a).id].open
            /\ m.valve[At(m, c, a).id].closed = m.valve[At(m, p, a).id].closed
            /\ m.valve[At(m, c, a).id].pressure = m.valve[At(m, p, a).id].pressure
            /\ m.valve[At(m, c, a).id].start_pressure = m.valve[At(m, p, a).id].start_pressure
  /\ DOMAIN m.queue = {EVENT_BUFFER}

\* C9: clone() preserves aliasing: a fork held at k indexes of the original is one
\* fork held at the same k indexes of the clone, a valve fed from several places
\* is one valve fed from the same places, and every copied valve appends to the
\* event list of its original, which is not copied.
C9_CloneKeepsAliasing == op.name = "clone" => Mirrors(Machine, TEMPLATE, CLONE)

\* a template that is held raised somewhere, with a fork at two indexes and a
\* valve fed by it and by an index directly, has just been cloned
C9_Witness ==
  /\ op.name = "clone"
  /\ pressed[TEMPLATE] # {}
  /\ \E a, b \in Slots(Machine, TEMPLATE) :
       /\ a[1] # b[1] /\ a[3] = 0 /\ b[3] = 0
       /\ At(Machine, TEMPLATE, a) = At(Machine, TEMPLATE, b)
       /\ At(Machine, TEMPLATE, a).t = "F"
  /\ \E a, b \in Slots(Machine, TEMPLATE) :
       /\ a[3] = 0 /\ b[3] # 0
       /\ At(Machine, TEMPLATE, a) = At(Machine, TEMPLATE, b)

\* C10: the clone of a plumbing whose menuing_disabled is set has every valve
\* with pid < 0 disabled and every valve with pid >= 0 enabled; the clone of one
\* whose menuing_disabled is not set has each valve enabled as its original is.
C10_CloneMenuState ==
  op.name = "clone" =>
    IF plumbing[TEMPLATE].menuing_disabled
    THEN \A v \in ValveSet(Machine, CLONE) : valve[v].enabled = (valve[v].open[1] >= 0)
    ELSE \A a \in Slots(Machine, TEMPLATE) :
           At(Machine, TEMPLATE, a).t = "V" =>
             valve[At(Machine, CLONE, a).id].enabled = valve[At(Machine, TEMPLATE, a).id].enabled

\* a template with menuing_disabled set whose valves are all enabled has just been
\* cloned, and the clone has valves with pid < 0 and with pid >= 0
C10_Witness ==
  /\ op.name = "clone"
  /\ plumbing[TEMPLATE].menuing_disabled
  /\ \A v \in ValveSet(Machine, TEMPLATE) : valve[v].enabled
  /\ \E v \in ValveSet(Machine, CLONE) : valve[v].open[1] < 0
  /\ \E v \in ValveSet(Machine, CLONE) : valve[v].open[1] >= 0

(***************************************************************************)
(* A clone of a freshly built template under debounced plus()/minus(), as  *)
(* a Controller drives its plumbing.                                        *)
(***************************************************************************)
\* 0 1 = QUIT / 1 2 = QUIT / 1 = QUIT CANCEL / 0 = P1_UP / 0 2 = P1_UP / 1 0 = QUIT
BlueprintC ==
  << [inputs |-> {0, 1}, outputs |-> <<Out("QUIT")>>],
     [inputs |-> {1, 2}, outputs |-> <<Out("QUIT")>>],
     [inputs |-> {1},    outputs |-> <<Out("QUIT"), Out("CANCEL")>>],
     [inputs |-> {0},    outputs |-> <<Out("P1_UP")>>],
     [inputs |-> {0, 2}, outputs |-> <<Out("P1_UP")>>],
     [inputs |-> {0, 1}, outputs |-> <<Out("QUIT")>>] >>

StimConfigs == Configs \cup {[kind |-> "dict", blueprint |-> BlueprintC]}

\* the indexes the driver raises and lowers; a list built from BlueprintA or
\* BlueprintB has no index 2
StimIndexes == {0, 1, 2}

\* EventPlumbing(container, blueprint).clone()
Cloned(cf) ==
  clone(EventPlumbing_init(FreshMachine, TEMPLATE, cf.kind, cf.blueprint), TEMPLATE, CLONE)

\* the clone of a template built from one of the blueprints, nothing raised, the
\* valves of the clone observed
InitClone(configs) ==
  /\ \E cf \in configs :
       /\ valve = Cloned(cf).valve
       /\ fork = Cloned(cf).fork
       /\ queue = Cloned(cf).queue
       /\ plumbing = Cloned(cf).plumbing
       /\ hist = [v \in ValveSet(Cloned(cf), CLONE) |-> NoHist]
       /\ added = CallsOf(cf.blueprint)
  /\ net = <<>>
  /\ op = Call("clone", CLONE, 0)
  /\ pressed = (CLONE :> {})

InitStim == InitClone(StimConfigs)

NextStim ==
  \/ \E index \in StimIndexes : Plus(CLONE, index)
  \/ \E index \in StimIndexes : Minus(CLONE, index)
  \/ PopLeft

SpecStim == InitStim /\ [][NextStim]_vars

\* the input sets the blueprint connects to the event of valve v
InputSets(v) ==
  {Elems(added[n].inputs) :
     n \in {k \in DOMAIN added : NameEvent(added[k].name) = valve[v].open}}

\* C5: in a clone of a template built from a blueprint, with every index raised
\* and lowered alternately starting with a raise, the pressure of every valve is
\* the number of distinct input sets of its event in the blueprint whose indexes
\* are all raised; so a valve is open (pressure above 0, and for an enabled valve
\* the event it appended last is its open event) exactly while the indexes of one
\* blueprint line naming its event are all raised.
C5_PressureCountsInputSets ==
  \A v \in ValveSet(Machine, CLONE) :
    /\ valve[v].pressure = Cardinality({S \in InputSets(v) : S \subseteq pressed[CLONE]})
    /\ valve[v].pressure > 0 <=>
         \E n \in DOMAIN added :
           /\ NameEvent(added[n].name) = valve[v].open
           /\ Elems(added[n].inputs) \subseteq pressed[CLONE]
    /\ valve[v].enabled => (hist[v].last = "open" <=> valve[v].pressure > 0)

\* with indexes 1 and 2 raised a valve named by three lines has the pressure 2
\* of the two lines that are satisfied, and a valve that index 0 had opened has
\* appended its closed event
C5_Witness ==
  /\ pressed[CLONE] = {1, 2}
  /\ \E v \in ValveSet(Machine, CLONE) :
       /\ valve[v].pressure = 2
       /\ Cardinality(InputSets(v)) = 3
  /\ \E v \in ValveSet(Machine, CLONE) :
       hist[v].last = "closed" /\ valve[v].pressure = 0

(***************************************************************************)
(* A clone in use: raised and lowered by its driver, reset, its menu       *)
(* controls switched, auto-repeated, its generic button learned.           *)
(***************************************************************************)
InitUse == InitClone(Configs)

NextUse ==
  \/ \E index \in Indexes : Plus(CLONE, index)
  \/ \E index \in Indexes : Minus(CLONE, index)
  \/ Reset(CLONE)
  \/ \E onoff \in BOOLEAN : MenuControlsEnabled(CLONE, onoff)
  \/ RepeatOutput(CLONE)
  \/ \E old \in Generic, new \in Learned : Learn(CLONE, old, new)
  \/ PopLeft

SpecUse == InitUse /\ [][NextUse]_vars

\* valve v has appended an event in this step
Emitted(v) == hist'[v].n # hist[v].n

\* C2 as the specification states it: whatever is done to its plumbing, an event
\* a valve appends has the other polarity than the event it appended before.
C2_AlwaysAlternates ==
  [][\A v \in DOMAIN hist : Emitted(v) => hist'[v].last # hist[v].last]_vars

\* C2: the events a valve appends in plus() and minus() alternate in polarity as
\* long as, between one event and the next, reset() has not changed the valve's
\* pressure, its enabled flag has not been changed and replace_valve() has not
\* added another valve's pressure to it.
C2_AlternatesWhileUntouched ==
  [][\A v \in DOMAIN hist :
       (op'.name \in {"pplus", "pminus"} /\ Emitted(v) /\ hist[v].clean) =>
          hist'[v].last # hist[v].last]_vars

\* a valve that has appended its open event, then its closed event, has just
\* appended its open event again, and nothing else was done to it in between
C2_Witness ==
  /\ op.name = "pplus"
  /\ \E v \in DOMAIN hist :
       /\ hist[v].last = "open" /\ hist[v].clean /\ hist[v].n = 1
       /\ valve[v].pressure = 1
       /\ Len(queue[EVENT_BUFFER]) > 0
       /\ queue[EVENT_BUFFER][Len(queue[EVENT_BUFFER])] = valve[v].open
  /\ \E w \in DOMAIN hist : ~hist[w].clean

(***************************************************************************)
(* A clone whose players are transposed, between raising and lowering its  *)
(* indexes and learning its generic button.                                *)
(***************************************************************************)
\* transpose_player() is called with an adder in -MaxAdder..MaxAdder
MaxAdder == 4
Adders == (0 - MaxAdder)..MaxAdder

\* pb.transpose_player(adder)
Transpose(p, adder) ==
  /\ queue[EVENT_BUFFER] = <<>>
  /\ SetMachine(transpose_player(Machine, p, adder))
  /\ op' = Call("transpose", p, adder)
  /\ UNCHANGED <<net, pressed, added>>

InitTranspose == InitClone(Configs)

NextTranspose ==
  \/ \E adder \in Adders : Transpose(CLONE, adder)
  \/ \E index \in Indexes : Plus(CLONE, index)
  \/ \E index \in Indexes : Minus(CLONE, index)
  \/ \E old \in Generic, new \in Learned : Learn(CLONE, old, new)
  \/ PopLeft

SpecTranspose == InitTranspose /\ [][NextTranspose]_vars

\* the player adder places after pid, within the players of pid's controller
PlayerAfter(pid, adder) ==
  CHOOSE q \in 0..(pid + MAX_PLAYERS) :
    /\ q \div MAX_PLAYERS = pid \div MAX_PLAYERS
    /\ \E k \in (0 - MaxAdder - 2)..(MaxAdder + 2) : q = pid + adder + k * MAX_PLAYERS

\* C11: transpose_player(a) followed by transpose_player(b) leaves the plumbing as
\* one transpose_player((a + b) mod MAX_PLAYERS) does; adders 1, 2 and -3 in turn
\* restore it; one call moves every valve with pid >= 0 on by adder players
\* exactly once, however many places hold the valve, and leaves every valve with
\* pid < 0 and every valve of another plumbing as it is.
C11_TransposeGroupAction ==
  /\ \A a, b \in Adders :
       transpose_player(transpose_player(Machine, CLONE, a), CLONE, b)
         = transpose_player(Machine, CLONE, (a + b) % MAX_PLAYERS)
  /\ transpose_player(transpose_player(transpose_player(Machine, CLONE, 1), CLONE, 2),
                      CLONE, -3) = Machine
  /\ \A a \in Adders :
       LET m2 == transpose_player(Machine, CLONE, a)
       IN /\ m2.fork = fork /\ m2.plumbing = plumbing /\ m2.queue = queue
          /\ \A v \in DOMAIN valve :
               IF v \in ValveSet(Machine, CLONE) /\ valve[v].open[1] >= 0
               THEN m2.valve[v] =
                      [valve[v] EXCEPT
                         !.open = <<PlayerAfter(valve[v].open[1], a), valve[v].open[2]>>,
                         !.closed = <<PlayerAfter(valve[v].open[1], a), valve[v].closed[2]>>]
               ELSE m2.valve[v] = valve[v]

\* transpose_player(-3) has just been called on a clone that holds a valve of
\* player 2 at two places and a valve with pid -1
C11_Witness ==
  /\ op.name = "transpose" /\ op.i = -3
  /\ \E a, b \in Slots(Machine, CLONE) :
       /\ a # b
       /\ At(Machine, CLONE, a) = At(Machine, CLONE, b)
       /\ At(Machine, CLONE, a).t = "V"
       /\ valve[At(Machine, CLONE, a).id].open[1] = 2
  /\ \E v \in ValveSet(Machine, CLONE) : valve[v].open[1] = -1

(***************************************************************************)
(* A clone whose generic button sits at several places, next to the valve  *)
(* it is learned to be.                                                    *)
(***************************************************************************)
\* 0 = P1_BUTTON_0 / 1 = P1_BUTTON_0 P1_UP / 0 1 = P1_UP P1_BUTTON_0 /
\* 2 = P1_UP P1_BUTTON_0
BlueprintD ==
  << [inputs |-> {0},    outputs |-> <<Out("P1_BUTTON_0")>>],
     [inputs |-> {1},    outputs |-> <<Out("P1_BUTTON_0"), Out("P1_UP")>>],
     [inputs |-> {0, 1}, outputs |-> <<Out("P1_UP"), Out("P1_BUTTON_0")>>],
     [inputs |-> {2},    outputs |-> <<Out("P1_UP"), Out("P1_BUTTON_0")>>] >>

LearnConfigs ==
  {[kind |-> "list", blueprint |-> BlueprintD], [kind |-> "dict", blueprint |-> BlueprintD],
   [kind |-> "dict", blueprint |-> BlueprintA]}

InitLearn == InitClone(LearnConfigs)

NextLearn ==
  \/ \E index \in StimIndexes : Plus(CLONE, index)
  \/ \E index \in StimIndexes : Minus(CLONE, index)
  \/ \E old \in Generic, new \in Learned : Learn(CLONE, old, new)
  \/ PopLeft

SpecLearn == InitLearn /\ [][NextLearn]_vars

RECURSIVE DropLater(_, _, _)
\* seq without the occurrences of x after the first
DropLater(seq, x, seen) ==
  IF seq = <<>> THEN <<>>
  ELSE IF Head(seq) = x
       THEN (IF seen THEN <<>> ELSE <<x>>) \o DropLater(Tail(seq), x, TRUE)
       ELSE <<Head(seq)>> \o DropLater(Tail(seq), x, seen)

RECURSIVE SumPressure(_, _)
SumPressure(m, S) ==
  IF S = {} THEN 0
  ELSE LET v == CHOOSE w \in S : TRUE IN m.valve[v].pressure + SumPressure(m, S \ {v})

\* the valves of the clone that are open to oldpidevid
OpenTo(m, oldpidevid) == {v \in ValveSet(m, CLONE) : m.valve[v].open = oldpidevid}

\* what replace_valve(oldpidevid, newvalve) is to leave of the clone
ReplaceDone(oldpidevid, newvalve) ==
  LET m2   == replace_valve(Machine, CLONE, oldpidevid, newvalve)
      olds == OpenTo(Machine, oldpidevid)
      c    == plumbing[CLONE].container
      c2   == m2.plumbing[CLONE].container
  IN /\ OpenTo(m2, oldpidevid) = {}
     /\ DOMAIN c2 = DOMAIN c
     /\ \A i \in DOMAIN c :
          /\ c2[i] = DropLater([k \in DOMAIN c[i] |->
                                  IF c[i][k].t = "V" /\ c[i][k].id \in olds
                                  THEN VRef(newvalve) ELSE c[i][k]], VRef(newvalve), FALSE)
          /\ (\E k \in DOMAIN c[i] : c[i][k].t = "V" /\ c[i][k].id \in olds)
               => VRef(newvalve) \in Elems(c2[i])
          /\ Cardinality({k \in DOMAIN c2[i] : c2[i][k] = VRef(newvalve)}) <= 1
     /\ DOMAIN m2.fork = DOMAIN fork
     /\ \A f \in ForkSet(Machine, CLONE) :
          LET o == fork[f].output_valves
              o2 == m2.fork[f].output_valves
          IN /\ o2 = DropLater([k \in DOMAIN o |-> IF o[k] \in olds THEN newvalve ELSE o[k]],
                               newvalve, FALSE)
             /\ Elems(o) \cap olds # {} => newvalve \in Elems(o2)
             /\ Cardinality({k \in DOMAIN o2 : o2[k] = newvalve}) <= 1
             /\ m2.fork[f].pressure = fork[f].pressure
     /\ m2.valve[newvalve].pressure = valve[newvalve].pressure + SumPressure(Machine, olds)
     /\ \A v \in DOMAIN valve : v # newvalve => m2.valve[v] = valve[v]
     /\ m2.queue = queue

\* C12: after replace_valve(oldpidevid, newvalve), for any binding oldpidevid and
\* any other valve newvalve of the plumbing: no valve open to oldpidevid is
\* reachable; every list of the container and every output list of a fork is
\* what it was with newvalve in the place of each such valve and only the first
\* newvalve kept, so a list that held such a valve holds newvalve and no list
\* holds it twice; the pressure of newvalve has grown by the sum of the
\* pressures of the replaced valves, each valve counted once.
C12_ReplaceValve ==
  \A newvalve \in ValveSet(Machine, CLONE) :
    \A oldpidevid \in {valve[v].open : v \in ValveSet(Machine, CLONE)} \cup Generic :
      valve[newvalve].open # oldpidevid => ReplaceDone(oldpidevid, newvalve)

\* the generic button has just been learned to be P1_UP when it was held at
\* four places, three of them raised; P1_UP now has the pressure of both and
\* the lists that held both hold one valve less
C12_Witness ==
  /\ op.name = "learn"
  /\ added = CallsOf(BlueprintD)
  /\ pressed[CLONE] = {0, 1}
  /\ \A g \in Generic : OpenTo(Machine, g) = {}
  /\ \E v \in ValveSet(Machine, CLONE) : valve[v].open = <<0, UP>> /\ valve[v].pressure = 5
  /\ Len(plumbing[CLONE].container[1]) = 2
  /\ Len(plumbing[CLONE].container[2]) = 1
  /\ \A f \in ForkSet(Machine, CLONE) : Len(fork[f].output_valves) = 1

(***************************************************************************)
(* A plumbing and the plumbing read back from its repr(), raised and       *)
(* lowered together.  Here net is the heap of the plumbing read back and   *)
(* added holds is_keyboard.                                                *)
(***************************************************************************)
\* 0 1 = QUIT / 0 = P1_UP
TextE ==
  << [inputs |-> <<Num(0), Num(1)>>, outputs |-> <<Out("QUIT")>>],
     [inputs |-> <<Num(0)>>,         outputs |-> <<Out("P1_UP")>>] >>

\* 1 2 = QUIT / A0 = UP P1_UP
TextF ==
  << [inputs |-> <<Num(1), Num(2)>>, outputs |-> <<Out("QUIT")>>],
     [inputs |-> <<Axis(0, 1)>>,     outputs |-> <<Out("UP"), Out("P1_UP")>>] >>

\* 0 = !UP P1_BUTTON_0 / 1 = P1_UP / 0 1 = P1_UP
TextB ==
  << [inputs |-> <<Num(0)>>,         outputs |-> <<Bang("UP"), Out("P1_BUTTON_0")>>],
     [inputs |-> <<Num(1)>>,         outputs |-> <<Out("P1_UP")>>],
     [inputs |-> <<Num(0), Num(1)>>, outputs |-> <<Out("P1_UP")>>] >>

\* 1 = P1_BUTTON_0 / 0 1 = P1_UP QUIT / 2 = P1_UP
TextG ==
  << [inputs |-> <<Num(1)>>,         outputs |-> <<Out("P1_BUTTON_0")>>],
     [inputs |-> <<Num(0), Num(1)>>, outputs |-> <<Out("P1_UP"), Out("QUIT")>>],
     [inputs |-> <<Num(2)>>,         outputs |-> <<Out("P1_UP")>>] >>

RoundConfigs ==
  {[kind |-> "list", text |-> TextE], [kind |-> "dict", text |-> TextF],
   [kind |-> "list", text |-> TextB], [kind |-> "dict", text |-> TextG]}

\* the indexes raised and lowered: buttons 0..2 and the virtual button A0
RoundIndexes == {0, 1, 2, MAX_BUTTONS + 1}

\* a heap with the prototype valves, none observed
Unobserved == [FreshMachine EXCEPT !.hist = <<>>]

\* EventPlumbing(container, text).clone()
Parsed(kind, text) ==
  clone(EventPlumbing_parse(Unobserved, TEMPLATE, kind, text).m, TEMPLATE, CLONE)

\* EventPlumbing(container, repr(pb)).clone(), with a container of pb's kind
ReadBack(m, is_keyboard) ==
  Parsed(m.plumbing[CLONE].kind, repr(m, CLONE, is_keyboard))

InitRound ==
  /\ \E cf \in RoundConfigs :
       LET r == EventPlumbing_parse(Unobserved, TEMPLATE, cf.kind, cf.text)
       IN /\ valve = Parsed(cf.kind, cf.text).valve
          /\ fork = Parsed(cf.kind, cf.text).fork
          /\ queue = Parsed(cf.kind, cf.text).queue
          /\ plumbing = Parsed(cf.kind, cf.text).plumbing
          /\ added = [is_keyboard |-> r.is_keyboard]
          /\ net = ReadBack(Parsed(cf.kind, cf.text), r.is_keyboard)
  /\ hist = <<>>
  /\ op = Call("clone", CLONE, 0)
  /\ pressed = (CLONE :> {})

\* no event is pending from either plumbing
Polled == queue[EVENT_BUFFER] = <<>> /\ net.queue[EVENT_BUFFER] = <<>>

\* plus(index) on both
RoundPlus(index) ==
  /\ index \notin pressed[CLONE]
  /\ Polled
  /\ SetMachine(EventPlumbing_plus(Machine, CLONE, index))
  /\ net' = EventPlumbing_plus(net, CLONE, index)
  /\ pressed' = [pressed EXCEPT ![CLONE] = @ \cup {index}]
  /\ op' = Call("pplus", CLONE, index)
  /\ UNCHANGED added

\* minus(index) on both
RoundMinus(index) ==
  /\ index \in pressed[CLONE]
  /\ Polled
  /\ SetMachine(EventPlumbing_minus(Machine, CLONE, index))
  /\ net' = EventPlumbing_minus(net, CLONE, index)
  /\ pressed' = [pressed EXCEPT ![CLONE] = @ \ {index}]
  /\ op' = Call("pminus", CLONE, index)
  /\ UNCHANGED added

\* UI.poll() takes the events pending from both
PollAll ==
  /\ ~Polled
  /\ queue' = [queue EXCEPT ![EVENT_BUFFER] = <<>>]
  /\ net' = [net EXCEPT !.queue[EVENT_BUFFER] = <<>>]
  /\ op' = Call("popleft", 0, 0)
  /\ UNCHANGED <<valve, fork, hist, plumbing, pressed, added>>

\* _learn_generic_button with nothing raised; its save_to_disk() writes repr(pb),
\* which is read back
LearnSave(old, new) ==
  /\ pressed[CLONE] = {}
  /\ Polled
  /\ \E v \in ValveSet(Machine, CLONE) : valve[v].open = old
  /\ SetMachine(learn_generic_button(Machine, CLONE, old, new))
  /\ net' = ReadBack(learn_generic_button(Machine, CLONE, old, new), added.is_keyboard)
  /\ op' = Call("learn", CLONE, 0)
  /\ UNCHANGED <<pressed, added>>

NextRound ==
  \/ \E index \in RoundIndexes : RoundPlus(index)
  \/ \E index \in RoundIndexes : RoundMinus(index)
  \/ \E old \in Generic, new \in Learned : LearnSave(old, new)
  \/ PollAll

SpecRound == InitRound /\ [][NextRound]_vars

\* the events of a queue other than PASS
Semantic(q) == SelectSeq(q, LAMBDA e : e[2] # PASS)

\* C13: raised and lowered with the same indexes, a plumbing and the plumbing
\* read back from its repr() append the same events in the same order.
C13_RoundTrip ==
  Semantic(queue[EVENT_BUFFER]) = Semantic(net.queue[EVENT_BUFFER])

\* both append the same events to each call, in whatever order
C13_SameEventsPerCall ==
  /\ Elems(Semantic(queue[EVENT_BUFFER])) = Elems(Semantic(net.queue[EVENT_BUFFER]))
  /\ Len(Semantic(queue[EVENT_BUFFER])) = Len(Semantic(net.queue[EVENT_BUFFER]))

(***************************************************************************)
(* plus() and minus() with an index the container does not hold            *)
(***************************************************************************)
\* C14: plus(index) and minus(index) with an index that the container has no
\* entry for (beyond the end of a list, not a key of a dict) leave every valve,
\* every fork, the container and the pending events as they are.
C14_AbsentIndexIgnored ==
  [][(op'.name \in {"pplus", "pminus"} /\ op'.i \notin DOMAIN plumbing[CLONE].container)
       => /\ valve' = valve
          /\ fork' = fork
          /\ plumbing' = plumbing
          /\ queue' = queue]_vars

\* index 2 has just been lowered on a list that ends at index 1, while index 0
\* is raised and holds a valve open
C14_Witness ==
  /\ op.name = "pminus" /\ op.i = 2
  /\ plumbing[CLONE].kind = "list"
  /\ DOMAIN plumbing[CLONE].container = {0, 1}
  /\ pressed[CLONE] = {0}
  /\ \E v \in ValveSet(Machine, CLONE) : valve[v].pressure > 0

(***************************************************************************)
(* The constructor on texts with and without a line it rejects.  Here      *)
(* added is the text and net what the constructor raised.                  *)
(***************************************************************************)
\* 0 = QUIT, 0 1 = P1_UP, A0 = UP, and the lines =, = UP, 0 = GORTZ, A? = UP,
\* 1 = QUIT GORTZ, 0 =
LinePool ==
  { [inputs |-> <<Num(0)>>,         outputs |-> <<Out("QUIT")>>],
    [inputs |-> <<Num(0), Num(1)>>, outputs |-> <<Out("P1_UP")>>],
    [inputs |-> <<Axis(0, 1)>>,     outputs |-> <<Out("UP")>>],
    [inputs |-> <<>>,               outputs |-> <<>>],
    [inputs |-> <<>>,               outputs |-> <<Out("UP")>>],
    [inputs |-> <<Num(0)>>,         outputs |-> <<Out("GORTZ")>>],
    [inputs |-> <<BadWord>>,        outputs |-> <<Out("UP")>>],
    [inputs |-> <<Num(1)>>,         outputs |-> <<Out("QUIT"), Out("GORTZ")>>],
    [inputs |-> <<Num(0)>>,         outputs |-> <<>>] }

\* a blueprint has up to MaxLines lines
MaxLines == 2
Texts == UNION {[1..n -> LinePool] : n \in 0..MaxLines}

InitParse ==
  /\ valve = Unobserved.valve
  /\ fork = Unobserved.fork
  /\ queue = Unobserved.queue
  /\ hist = Unobserved.hist
  /\ plumbing = Unobserved.plumbing
  /\ added \in Texts
  /\ net = <<>>
  /\ op = Call("start", 0, 0)
  /\ pressed = <<>>

\* EventPlumbing(container, blueprint): what it raises is kept in net, and the
\* container is the caller's, whatever is raised
Construct(kind) ==
  /\ TEMPLATE \notin DOMAIN plumbing
  /\ SetMachine(EventPlumbing_parse(Machine, TEMPLATE, kind, added).m)
  /\ net' = [err |-> EventPlumbing_parse(Machine, TEMPLATE, kind, added).err]
  /\ op' = Call("init", TEMPLATE, 0)
  /\ UNCHANGED <<pressed, added>>

NextParse == \E kind \in {"list", "dict"} : Construct(kind)

SpecParse == InitParse /\ [][NextParse]_vars

\* a line the blueprint syntax does not allow
Malformed(line) ==
  \/ line.inputs = <<>>
  \/ line.outputs = <<>>
  \/ \E k \in DOMAIN line.inputs : line.inputs[k].k = "bad"
  \/ \E k \in DOMAIN line.outputs : line.outputs[k].name \notin Elems(EventNames)

\* the constructor raises SyntaxError exactly for the texts with a malformed line
C15_SyntaxErrorRaised ==
  op.name = "init" =>
    (net.err # "none") = (\E n \in DOMAIN added : Malformed(added[n]))

\* what the lines before the first malformed line connect
Preceding ==
  LET bad == {n \in DOMAIN added : Malformed(added[n])}
      n1  == CHOOSE n \in bad : \A k \in bad : n <= k
  IN EventPlumbing_parse(Unobserved, TEMPLATE, plumbing[TEMPLATE].kind,
                         SubSeq(added, 1, n1 - 1)).m.plumbing[TEMPLATE].container

\* C15: a blueprint with a malformed line makes the constructor raise
\* SyntaxError, and the container it was handed then holds none of the
\* connections of the lines before that line.
C15_NoPartialGraph ==
  op.name = "init" /\ (\E n \in DOMAIN added : Malformed(added[n]))
    => /\ net.err # "none"
       /\ \A i \in DOMAIN Preceding :
            i \in DOMAIN plumbing[TEMPLATE].container
              => Elems(Preceding[i]) \cap Elems(plumbing[TEMPLATE].container[i]) = {}

(***************************************************************************)
(* Controller and UI.pump, for one controller.  r is the heap r.m, the     *)
(* Controller r.c and r.calls, the plus() and minus() calls made on its    *)
(* plumbing so far.  A pygame event is its type, the number n of its       *)
(* button, hat or axis, and its value: (x, y) of a hat, x tenths of an     *)
(* axis.                                                                   *)
(***************************************************************************)
\* the number of the controller in UI.controllers, and its hats
JOY == 1
NumHats == 1

JoyButtonDown(b) == [type |-> "JOYBUTTONDOWN", n |-> b, x |-> 0, y |-> 0]
JoyButtonUp(b) == [type |-> "JOYBUTTONUP", n |-> b, x |-> 0, y |-> 0]
JoyHatMotion(h, x, y) == [type |-> "JOYHATMOTION", n |-> h, x |-> x, y |-> y]
JoyAxisMotion(a, tenths) == [type |-> "JOYAXISMOTION", n |-> a, x |-> tenths, y |-> 0]

\* joy << GENERIC_BUTTON_SHIFTER and pid >> GENERIC_BUTTON_SHIFTER
ShiftLeft(joy) == joy * (2 ^ GENERIC_BUTTON_SHIFTER)
ShiftRight(pid) == pid \div (2 ^ GENERIC_BUTTON_SHIFTER)

RECURSIVE GenericButtonsFixup_visit_add(_, _, _)
\* GenericButtonsFixup.visit that adds the fixup to the pid as it is
GenericButtonsFixup_visit_add(m, joy, outputs) ==
  IF outputs = <<>> THEN m
  ELSE GenericButtonsFixup_visit_add(
         IF m.valve[Head(outputs)].open[2] >= GENERIC_BUTTON
         THEN [m EXCEPT
                 !.valve[Head(outputs)].open = <<@[1] + ShiftLeft(joy), @[2]>>,
                 !.valve[Head(outputs)].closed = <<@[1] + ShiftLeft(joy), @[2]>>]
         ELSE m, joy, Tail(outputs))

RECURSIVE GenericButtonsFixup_visit(_, _, _)
GenericButtonsFixup_visit(m, joy, outputs) ==
  IF outputs = <<>> THEN m
  ELSE LET v  == Head(outputs)
           vl == m.valve[v]
           m1 == IF vl.open[2] >= GENERIC_BUTTON
                 THEN [m EXCEPT
                         !.valve[v].open = <<LowBits(vl.open[1]) + ShiftLeft(joy), vl.open[2]>>,
                         !.valve[v].closed =
                            <<LowBits(vl.closed[1]) + ShiftLeft(joy), vl.closed[2]>>]
                 ELSE m
       IN GenericButtonsFixup_visit(m1, joy, Tail(outputs))

RECURSIVE GenericButtonsFixup_all(_, _, _)
GenericButtonsFixup_all(m, joy, calls) ==
  IF calls = <<>> THEN m
  ELSE GenericButtonsFixup_all(GenericButtonsFixup_visit(m, joy, Head(calls).outputs),
                               joy, Tail(calls))

\* Controller.__init__ and Controller.reset(): nothing pressed, no axis state
\* set, nothing learned
Controller_reset ==
  [button_state |-> {}, num_pressed |-> 0, axis_state |-> {}, generic_buttons |-> <<>>]

\* UI.set_controller_plumbing(JOY, pb), pb the plumbing CLONE of the heap m
set_controller_plumbing(m) ==
  [m |-> GenericButtonsFixup_all(m, JOY, visit(m, CLONE)), c |-> Controller_reset,
   calls |-> <<>>, saves |-> <<>>]

\* self.plumbing.plus(index) and self.plumbing.minus(index)
PlumbingPlus(r, index) ==
  [r EXCEPT !.m = EventPlumbing_plus(r.m, CLONE, index),
            !.calls = Append(@, <<"plus", index>>)]

PlumbingMinus(r, index) ==
  [r EXCEPT !.m = EventPlumbing_minus(r.m, CLONE, index),
            !.calls = Append(@, <<"minus", index>>)]

\* mutant: a button already pressed is pressed again
Controller_pressed_again(r, button) ==
  [PlumbingPlus(r, button) EXCEPT !.c.button_state = @ \cup {button},
                                  !.c.num_pressed = @ + 1]

Controller_pressed(r, button) ==
  IF button \notin r.c.button_state
  THEN [PlumbingPlus(r, button) EXCEPT !.c.button_state = @ \cup {button},
                                       !.c.num_pressed = @ + 1]
  ELSE r

\* Controller.released that does not look at button_state
Controller_released_again(r, button) ==
  [PlumbingMinus(r, button) EXCEPT !.c.button_state = @ \ {button},
                                   !.c.num_pressed = @ - 1]

Controller_released(r, button) ==
  IF button \in r.c.button_state
  THEN [PlumbingMinus(r, button) EXCEPT !.c.button_state = @ \ {button},
                                        !.c.num_pressed = @ - 1]
  ELSE r

\* mutant: the state of the axis is pumped into the plumbing changed or not
handle_axis_always(r, axis, state) ==
  LET r1 == [r EXCEPT !.c.axis_state = IF state THEN @ \cup {axis} ELSE @ \ {axis}]
  IN IF state THEN PlumbingPlus(r1, axis) ELSE PlumbingMinus(r1, axis)

\* UI._handle_axis: axis_state holds the virtual buttons whose state is True
handle_axis(r, axis, state) ==
  IF (axis \in r.c.axis_state) # state
  THEN LET r1 == [r EXCEPT !.c.axis_state = IF state THEN @ \cup {axis} ELSE @ \ {axis}]
       IN IF state THEN PlumbingPlus(r1, axis) ELSE PlumbingMinus(r1, axis)
  ELSE r

\* mutant: y > 0 and y < 0 of a hat are taken for each other
pump_event_hatflip(r, event) ==
  CASE event.type = "JOYBUTTONDOWN" ->
         IF event.n < MAX_BUTTONS THEN Controller_pressed(r, event.n) ELSE r
    [] event.type = "JOYBUTTONUP" ->
         IF event.n < MAX_BUTTONS THEN Controller_released(r, event.n) ELSE r
    [] event.type = "JOYHATMOTION" ->
         LET axis == MAX_BUTTONS + event.n * 6
             r1 == handle_axis(r, axis, event.x < 0)
             r2 == handle_axis(r1, axis + 1, event.x = 0)
             r3 == handle_axis(r2, axis + 2, event.x > 0)
             r4 == handle_axis(r3, axis + 3, event.y < 0)
             r5 == handle_axis(r4, axis + 4, event.y = 0)
         IN handle_axis(r5, axis + 5, event.y > 0)
    [] event.type = "JOYAXISMOTION" ->
         LET axis == MAX_BUTTONS + NumHats * 6 + event.n * 3
             r1 == handle_axis(r, axis, event.x < -5)
             r2 == handle_axis(r1, axis + 1, event.x >= -5 /\ event.x <= 5)
         IN handle_axis(r2, axis + 2, event.x > 5)

\* one turn of the loop "for event in events" of UI.pump
pump_event(r, event) ==
  CASE event.type = "JOYBUTTONDOWN" ->
         IF event.n < MAX_BUTTONS THEN Controller_pressed(r, event.n) ELSE r
    [] event.type = "JOYBUTTONUP" ->
         IF event.n < MAX_BUTTONS THEN Controller_released(r, event.n) ELSE r
    [] event.type = "JOYHATMOTION" ->
         LET axis == MAX_BUTTONS + event.n * 6
             r1 == handle_axis(r, axis, event.x < 0)
             r2 == handle_axis(r1, axis + 1, event.x = 0)
             r3 == handle_axis(r2, axis + 2, event.x > 0)
             r4 == handle_axis(r3, axis + 3, event.y > 0)
             r5 == handle_axis(r4, axis + 4, event.y = 0)
         IN handle_axis(r5, axis + 5, event.y < 0)
    [] event.type = "JOYAXISMOTION" ->
         LET axis == MAX_BUTTONS + NumHats * 6 + event.n * 3
             r1 == handle_axis(r, axis, event.x < -5)
             r2 == handle_axis(r1, axis + 1, event.x >= -5 /\ event.x <= 5)
         IN handle_axis(r2, axis + 2, event.x > 5)

RECURSIVE pump_events_backwards(_, _)
\* mutant: the events of a batch are taken last to first
pump_events_backwards(r, events) ==
  IF events = <<>> THEN r
  ELSE LET r1 == pump_event(r, events[Len(events)])
       IN IF DOMAIN r1 = DOMAIN r
          THEN pump_events_backwards(r1, SubSeq(events, 1, Len(events) - 1)) ELSE r1

RECURSIVE pump_events(_, _)
\* for event in events: each turn is evaluated before the next one is taken
pump_events(r, events) ==
  IF events = <<>> THEN r
  ELSE LET r1 == pump_event(r, Head(events))
       IN IF DOMAIN r1 = DOMAIN r THEN pump_events(r1, Tail(events)) ELSE r1

\* active.get((pid, evid), 0)
ActiveGet(active, pid, evid) == IF <<pid, evid>> \in active THEN 1 ELSE 0

\* mutant: nothing is saved
save_to_disk_never(r, oldevid) == r

\* self.controllers[joy].plumbing.save_to_disk(), the last statement of
\* _learn_generic_button(joy, oldpid, oldevid, pid, evid): what it writes is
\* repr(self); logged with it are oldevid and the generic_buttons of the
\* controller at the call
save_to_disk(r, oldevid) ==
  [r EXCEPT !.saves = Append(@, [oldevid |-> oldevid,
                                 text |-> repr(r.m, CLONE, FALSE),
                                 generic_buttons |-> r.c.generic_buttons])]

\* mutant: the last direction over the bar is taken, not the first
CountGeneric_lastdir(r, ev, active) ==
  LET pid  == LowBits(ev[1])
      evid == ev[2]
      gb   == r.c.generic_buttons
      gen0 == IF evid \in DOMAIN gb THEN gb[evid] ELSE <<0, 0, 0, 0, 0>>
      gen  == <<gen0[1] + 1,
                gen0[2] + ActiveGet(active, pid, LEFT),
                gen0[3] + ActiveGet(active, pid, RIGHT),
                gen0[4] + ActiveGet(active, pid, UP),
                gen0[5] + ActiveGet(active, pid, DOWN)>>
      gb1  == [e \in (DOMAIN gb) \cup {evid} |-> IF e = evid THEN gen ELSE gb[e]]
      dirs == <<LEFT, RIGHT, UP, DOWN>>
      hit  == {i \in 1..4 : gen[i + 1] * 100 > LEARN_GENERIC_BUTTON_DIRECTION * gen[1]}
      ind  == {i \in 1..4 : gen[i + 1] * 100 < LEARN_GENERIC_BUTTON_INDEPENDENT * gen[1]}
      old  == <<pid + ShiftLeft(JOY), evid>>
      del  == [e \in (DOMAIN gb1) \ {evid} |-> gb1[e]]
  IN IF gen[1] > MIN_LEARN_GENERIC_BUTTON_COUNT /\ hit # {}
     THEN save_to_disk(
            [r EXCEPT !.m = learn_generic_button(r.m, CLONE, old,
                              <<pid, dirs[CHOOSE i \in hit : \A j \in hit : i >= j]>>),
                      !.c.generic_buttons = del], evid)
     ELSE IF gen[1] > MIN_LEARN_GENERIC_BUTTON_COUNT /\ ind = 1..4
     THEN save_to_disk(
            [r EXCEPT !.m = learn_generic_button(r.m, CLONE, old, <<-1, PASS>>),
                      !.c.generic_buttons = del], evid)
     ELSE [r EXCEPT !.c.generic_buttons = gb1]

\* mutant: the entry of a learned button is kept
CountGeneric_keep(r, ev, active) ==
  LET pid  == LowBits(ev[1])
      evid == ev[2]
      gb   == r.c.generic_buttons
      gen0 == IF evid \in DOMAIN gb THEN gb[evid] ELSE <<0, 0, 0, 0, 0>>
      gen  == <<gen0[1] + 1,
                gen0[2] + ActiveGet(active, pid, LEFT),
                gen0[3] + ActiveGet(active, pid, RIGHT),
                gen0[4] + ActiveGet(active, pid, UP),
                gen0[5] + ActiveGet(active, pid, DOWN)>>
      gb1  == [e \in (DOMAIN gb) \cup {evid} |-> IF e = evid THEN gen ELSE gb[e]]
      dirs == <<LEFT, RIGHT, UP, DOWN>>
      hit  == {i \in 1..4 : gen[i + 1] * 100 > LEARN_GENERIC_BUTTON_DIRECTION * gen[1]}
      ind  == {i \in 1..4 : gen[i + 1] * 100 < LEARN_GENERIC_BUTTON_INDEPENDENT * gen[1]}
      old  == <<pid + ShiftLeft(JOY), evid>>
      del  == [e \in (DOMAIN gb1) \ {evid} |-> gb1[e]]
  IN IF gen[1] > MIN_LEARN_GENERIC_BUTTON_COUNT /\ hit # {}
     THEN save_to_disk(
            [r EXCEPT !.m = learn_generic_button(r.m, CLONE, old,
                              <<pid, dirs[CHOOSE i \in hit : \A j \in hit : i <= j]>>),
                      !.c.generic_buttons = gb1], evid)
     ELSE IF gen[1] > MIN_LEARN_GENERIC_BUTTON_COUNT /\ ind = 1..4
     THEN save_to_disk(
            [r EXCEPT !.m = learn_generic_button(r.m, CLONE, old, <<-1, PASS>>),
                      !.c.generic_buttons = gb1], evid)
     ELSE [r EXCEPT !.c.generic_buttons = gb1]

\* the body of "for (pid, evid) in generic" for one generic button event
CountGeneric(r, ev, active) ==
  LET pid  == LowBits(ev[1])
      evid == ev[2]
      gb   == r.c.generic_buttons
      gen0 == IF evid \in DOMAIN gb THEN gb[evid] ELSE <<0, 0, 0, 0, 0>>
      gen  == <<gen0[1] + 1,
                gen0[2] + ActiveGet(active, pid, LEFT),
                gen0[3] + ActiveGet(active, pid, RIGHT),
                gen0[4] + ActiveGet(active, pid, UP),
                gen0[5] + ActiveGet(active, pid, DOWN)>>
      gb1  == [e \in (DOMAIN gb) \cup {evid} |-> IF e = evid THEN gen ELSE gb[e]]
      dirs == <<LEFT, RIGHT, UP, DOWN>>
      hit  == {i \in 1..4 : gen[i + 1] * 100 > LEARN_GENERIC_BUTTON_DIRECTION * gen[1]}
      ind  == {i \in 1..4 : gen[i + 1] * 100 < LEARN_GENERIC_BUTTON_INDEPENDENT * gen[1]}
      old  == <<pid + ShiftLeft(JOY), evid>>
      del  == [e \in (DOMAIN gb1) \ {evid} |-> gb1[e]]
  IN IF gen[1] > MIN_LEARN_GENERIC_BUTTON_COUNT /\ hit # {}
     THEN save_to_disk(
            [r EXCEPT !.m = learn_generic_button(r.m, CLONE, old,
                              <<pid, dirs[CHOOSE i \in hit : \A j \in hit : i <= j]>>),
                      !.c.generic_buttons = del], evid)
     ELSE IF gen[1] > MIN_LEARN_GENERIC_BUTTON_COUNT /\ ind = 1..4
     THEN save_to_disk(
            [r EXCEPT !.m = learn_generic_button(r.m, CLONE, old, <<-1, PASS>>),
                      !.c.generic_buttons = del], evid)
     ELSE [r EXCEPT !.c.generic_buttons = gb1]

RECURSIVE CountGenerics(_, _, _)
CountGenerics(r, generic, active) ==
  IF generic = <<>> THEN r
  ELSE CountGenerics(CountGeneric(r, Head(generic), active), Tail(generic), active)

\* mutant: the directions are looked for in all of the event buffer
handle_generic_buttons_whole(r, num_events) ==
  LET buf     == r.m.queue[EVENT_BUFFER]
      new     == SubSeq(buf, num_events + 1, Len(buf))
      active  == {buf[k] : k \in {j \in DOMAIN buf :
                     buf[j][1] >= 0 /\ buf[j][2] \in {LEFT, RIGHT, UP, DOWN}}}
      generic == SelectSeq(new, LAMBDA e :
                     /\ e[1] >= 0
                     /\ e[2] \notin {LEFT, RIGHT, UP, DOWN}
                     /\ e[2] >= GENERIC_BUTTON
                     /\ r.c.num_pressed = 1)
  IN CountGenerics(r, generic, active)

\* UI._handle_generic_buttons(num_events); the controller of every generic
\* button event is this one
handle_generic_buttons(r, num_events) ==
  LET buf     == r.m.queue[EVENT_BUFFER]
      new     == SubSeq(buf, num_events + 1, Len(buf))
      active  == {new[k] : k \in {j \in DOMAIN new :
                     new[j][1] >= 0 /\ new[j][2] \in {LEFT, RIGHT, UP, DOWN}}}
      generic == SelectSeq(new, LAMBDA e :
                     /\ e[1] >= 0
                     /\ e[2] \notin {LEFT, RIGHT, UP, DOWN}
                     /\ e[2] >= GENERIC_BUTTON
                     /\ r.c.num_pressed = 1)
  IN CountGenerics(r, generic, active)

\* UI.pump(events)
\* the end of pump(): r is what the loop over the events left
pump_learn(r, num_events) ==
  IF Len(r.m.queue[EVENT_BUFFER]) > num_events
  THEN handle_generic_buttons(r, num_events)
  ELSE r

pump(r, events) == pump_learn(pump_events(r, events), Len(r.m.queue[EVENT_BUFFER]))

\* mutant: no event is discarded
DiscardGeneric_none(buf) == buf

RECURSIVE DiscardGeneric(_)
\* while len(self.event_buffer) > 0 and (self.event_buffer[0][1] >= GENERIC_BUTTON
\* or self.event_buffer[0][1] <= -GENERIC_BUTTON): self.event_buffer.popleft()
DiscardGeneric(buf) ==
  IF buf # <<>> /\ (Head(buf)[2] >= GENERIC_BUTTON \/ Head(buf)[2] <= -GENERIC_BUTTON)
  THEN DiscardGeneric(Tail(buf))
  ELSE buf

\* UI.poll(autorepeat): events is what pygame.event.get() has, due is
\* "ticks > next_repeat_time, and ticks > last_valve_change_time +
\* REPEAT_INITIAL_DELAY" as the clock has it before the call; pump() sets
\* last_valve_change_time to the time of the call when it appends events.  The
\* list of devices is as it was, so init_controllers() changes nothing, and no
\* key of the keyboard is held.  The result is r and the pair returned.
\* the end of poll(): (-1, PASS) if the buffer is empty, else popleft()
poll_return(r) ==
  IF r.m.queue[EVENT_BUFFER] = <<>>
  THEN [r |-> r, ret |-> <<-1, PASS>>]
  ELSE [r |-> [r EXCEPT !.m.queue[EVENT_BUFFER] = Tail(@)],
        ret |-> Head(r.m.queue[EVENT_BUFFER])]

\* the auto-repeat of poll(): appended tells that pump() appended events and
\* so set last_valve_change_time to now
poll_repeat(r, autorepeat, due, appended) ==
  poll_return(IF r.m.queue[EVENT_BUFFER] = <<>> /\ autorepeat /\ due /\ ~appended
              THEN [r EXCEPT !.m = repeat_output(r.m, CLONE)]
              ELSE r)

\* the discard loop of poll(): len0 is the length of the buffer at the call
poll_discard(r, autorepeat, due, len0) ==
  poll_repeat([r EXCEPT !.m.queue[EVENT_BUFFER] = DiscardGeneric(@)],
              autorepeat, due, Len(r.m.queue[EVENT_BUFFER]) > len0)

poll(r, autorepeat, events, due) ==
  poll_discard(IF r.m.queue[EVENT_BUFFER] = <<>> /\ events # <<>>
               THEN pump(r, events) ELSE r,
               autorepeat, due, Len(r.m.queue[EVENT_BUFFER]))

(***************************************************************************)
(* A controller with a hat, a generic button and a CANCEL button, pumped   *)
(* batches of events.  Here net is the Controller and the plus()/minus()   *)
(* calls of the last batch, added the last batch and pressed its           *)
(* button_state.                                                           *)
(***************************************************************************)
\* A- = P1_LEFT / 0 = P1_BUTTON_0 / 1 = CANCEL
TextCtl ==
  << [inputs |-> <<Axis(0, 0)>>, outputs |-> <<Out("P1_LEFT")>>],
     [inputs |-> <<Num(0)>>,     outputs |-> <<Out("P1_BUTTON_0")>>],
     [inputs |-> <<Num(1)>>,     outputs |-> <<Out("CANCEL")>>] >>

CtlPool ==
  {JoyButtonDown(0), JoyButtonUp(0), JoyButtonDown(1), JoyButtonUp(1),
   JoyHatMotion(0, -1, 0), JoyHatMotion(0, 0, 0)}

\* a batch has up to MaxBatch events; batches are pumped while at most
\* MaxPending events are pending and no generic button was counted MaxCount times
MaxBatch == 2
MaxPending == 1
MaxCount == 3

Batches(pool) == UNION {[1..n -> pool] : n \in 1..MaxBatch}

\* the controller just given its plumbing
InitWith(r) ==
  /\ valve = r.m.valve
  /\ fork = r.m.fork
  /\ queue = r.m.queue
  /\ hist = r.m.hist
  /\ plumbing = r.m.plumbing
  /\ net = [c |-> r.c, calls |-> <<>>, saves |-> <<>>]
  /\ added = <<>>
  /\ pressed = (CLONE :> {})
  /\ op = Call("clone", CLONE, 0)

InitController(kind, text) == InitWith(set_controller_plumbing(Parsed(kind, text)))

\* ui.pump(events)
\* the heap and the controller after a call that left r
SetController(r) ==
  /\ SetMachine(r.m)
  /\ net' = [c |-> r.c, calls |-> r.calls, saves |-> r.saves]
  /\ pressed' = (CLONE :> r.c.button_state)

Pump(events) ==
  /\ Len(queue[EVENT_BUFFER]) <= MaxPending
  /\ \A e \in DOMAIN net.c.generic_buttons : net.c.generic_buttons[e][1] < MaxCount
  /\ SetController(pump([m |-> Machine, c |-> net.c, calls |-> <<>>, saves |-> <<>>],
                        events))
  /\ added' = events
  /\ op' = Call("pump", CLONE, Len(events))

\* event_buffer.clear()
Clear ==
  /\ queue[EVENT_BUFFER] # <<>>
  /\ queue' = [queue EXCEPT ![EVENT_BUFFER] = <<>>]
  /\ op' = Call("clear", 0, 0)
  /\ UNCHANGED <<valve, fork, hist, net, plumbing, pressed, added>>

InitCtl == InitController("dict", TextCtl)

NextCtl ==
  \/ \E events \in Batches(CtlPool) : Pump(events)
  \/ Clear

SpecCtl == InitCtl /\ [][NextCtl]_vars

\* the calls of a log that are made with one index
CallsWith(log, index) == SelectSeq(log, LAMBDA call : call[2] = index)

\* a log of calls with one index is plus and minus in turn; it begins with plus
\* exactly if the index was not raised, and the index is raised after it exactly
\* if it ends with plus
InTurn(log, before, after) ==
  /\ \A k \in DOMAIN log : k > 1 => log[k][1] # log[k - 1][1]
  /\ log # <<>> => (log[1][1] = "plus") = ~before
  /\ after = IF log = <<>> THEN before ELSE log[Len(log)][1] = "plus"

RECURSIVE Debounced(_, _)
\* the calls that the button events of a batch are to cause, held the buttons
\* recorded pressed before it
Debounced(events, held) ==
  IF events = <<>> THEN <<>>
  ELSE LET e == Head(events)
       IN IF e.type = "JOYBUTTONDOWN" /\ e.n \notin held
          THEN <<<<"plus", e.n>>>> \o Debounced(Tail(events), held \cup {e.n})
          ELSE IF e.type = "JOYBUTTONUP" /\ e.n \in held
          THEN <<<<"minus", e.n>>>> \o Debounced(Tail(events), held \ {e.n})
          ELSE Debounced(Tail(events), held)

\* C16: a batch of events makes plus() and minus() calls with button indexes
\* only for the downs of buttons not recorded pressed and the ups of buttons
\* recorded pressed; num_pressed moves with these calls and is the number of
\* buttons recorded pressed; the calls with one button index are plus and
\* minus in turn, from one batch to the next, the first of all a plus.
C16_ButtonsDebounced ==
  [][op'.name = "pump" =>
       LET log == SelectSeq(net'.calls, LAMBDA call : call[2] < MAX_BUTTONS)
       IN /\ log = Debounced(added', pressed[CLONE])
          /\ net'.c.num_pressed = Cardinality(pressed'[CLONE])
          /\ net'.c.num_pressed - net.c.num_pressed
               = Len(SelectSeq(log, LAMBDA call : call[1] = "plus"))
                 - Len(SelectSeq(log, LAMBDA call : call[1] = "minus"))
          /\ net.c.num_pressed = Cardinality(pressed[CLONE])
          /\ \A b \in 0..(MAX_BUTTONS - 1) :
               InTurn(CallsWith(log, b), b \in pressed[CLONE], b \in pressed'[CLONE])]_vars

\* button 0 has just gone down twice in one batch while button 1 was held: one
\* plus(0) was made and two buttons are counted
C16_Witness ==
  /\ op.name = "pump"
  /\ added = <<JoyButtonDown(0), JoyButtonDown(0)>>
  /\ net.calls = <<<<"plus", 0>>>>
  /\ pressed[CLONE] = {0, 1}
  /\ net.c.num_pressed = 2

RECURSIVE HeldAfter(_, _)
\* the buttons recorded pressed after a sequence of events, held those before
HeldAfter(events, held) ==
  IF events = <<>> THEN held
  ELSE LET e == Head(events)
       IN HeldAfter(Tail(events),
                    IF e.type = "JOYBUTTONDOWN" THEN held \cup {e.n}
                    ELSE IF e.type = "JOYBUTTONUP" THEN held \ {e.n}
                    ELSE held)

\* button b has a generic button event at its index
GenericAt(b) ==
  /\ b \in DOMAIN plumbing[CLONE].container
  /\ \E k \in DOMAIN plumbing[CLONE].container[b] :
       /\ plumbing[CLONE].container[b][k].t = "V"
       /\ valve[plumbing[CLONE].container[b][k].id].open[2] >= GENERIC_BUTTON

\* the k-th event of the batch presses a generic button when no button of the
\* controller is recorded pressed
IsolatedPress(events, held, k) ==
  /\ events[k].type = "JOYBUTTONDOWN"
  /\ GenericAt(events[k].n)
  /\ HeldAfter(SubSeq(events, 1, k - 1), held) = {}

\* C19: a batch changes the counters of generic_buttons only if it holds the
\* press of a generic button made when no other button of the controller was
\* pressed; a generic button pressed while another button is held changes none.
C19_CountedOnlyIfIsolated ==
  [][(op'.name = "pump" /\ net'.c.generic_buttons # net.c.generic_buttons)
       => \E k \in DOMAIN added' : IsolatedPress(added', pressed[CLONE], k)]_vars

\* the events a step has appended to the event buffer
Fresh == SubSeq(queue'[EVENT_BUFFER], Len(queue[EVENT_BUFFER]) + 1, Len(queue'[EVENT_BUFFER]))

\* the counters of a generic button, zero before it is first counted
Counters(gb, evid) == IF evid \in DOMAIN gb THEN gb[evid] ELSE <<0, 0, 0, 0, 0>>

\* a step in which _learn_generic_button() is not called: no valve is bound to
\* another event and the container is as it was
NothingLearned ==
  /\ plumbing'[CLONE].container = plumbing[CLONE].container
  /\ \A v \in DOMAIN valve : valve'[v].open = valve[v].open

TextHat ==
  << [inputs |-> <<Axis(0, 0)>>, outputs |-> <<Out("P1_LEFT")>>],
     [inputs |-> <<Axis(0, 1)>>, outputs |-> <<Out("P1_UPLEFT")>>],
     [inputs |-> <<Axis(0, 2)>>, outputs |-> <<Out("P1_RIGHT")>>],
     [inputs |-> <<Axis(1, 2)>>, outputs |-> <<Out("P1_DOWN")>>],
     [inputs |-> <<Axis(1, 1)>>, outputs |-> <<Out("P1_UPRIGHT")>>],
     [inputs |-> <<Axis(1, 0)>>, outputs |-> <<Out("P1_UP")>>],
     [inputs |-> <<Axis(0, 1), Axis(1, 1)>>, outputs |-> <<Out("P1_CENTER")>>] >>

\* the hat at four of its positions; the axis at -.7, -.5 and .5
HatPool ==
  {JoyHatMotion(0, -1, 0), JoyHatMotion(0, 0, 0), JoyHatMotion(0, 0, 1),
   JoyHatMotion(0, -1, 1)}
    \cup {JoyAxisMotion(0, a) : a \in {-7, -5, 5}}

\* the hat moved once round and back to the centre
HatRound ==
  << JoyHatMotion(0, -1, 0), JoyHatMotion(0, -1, 1), JoyHatMotion(0, 0, 1),
     JoyHatMotion(0, 1, 1), JoyHatMotion(0, 1, 0), JoyHatMotion(0, 1, -1),
     JoyHatMotion(0, 0, -1), JoyHatMotion(0, -1, -1), JoyHatMotion(0, 0, 0) >>

InitHat == InitController("dict", TextHat)

NextHat ==
  \/ \E events \in Batches(HatPool) \cup {HatRound} : Pump(events)
  \/ Clear

SpecHat == InitHat /\ [][NextHat]_vars

\* the virtual buttons of the hat and of the first analog axis
VirtualButtons == MAX_BUTTONS..(MAX_BUTTONS + NumHats * 6 + 2)

\* the bucket a motion report falls in: the signs of a hat's x and y; below
\* -.5, within [-.5, .5] or above .5 for an analog axis
Bucket(e) ==
  IF e.type = "JOYAXISMOTION"
  THEN <<"axis", e.n, IF e.x < -5 THEN -1 ELSE IF e.x > 5 THEN 1 ELSE 0, 0>>
  ELSE <<"hat", e.n, e.x, e.y>>

\* the reports of a batch that come first for their hat or axis
FirstReports(events) ==
  {k \in DOMAIN events :
     \A j \in 1..(k - 1) : <<events[j].type, events[j].n>> # <<events[k].type, events[k].n>>}

\* every report of the batch falls in the bucket of the first report that the
\* batch has for the same hat or axis
Steady(events) ==
  \A k \in DOMAIN events :
    \E j \in FirstReports(events) :
      /\ <<events[j].type, events[j].n>> = <<events[k].type, events[k].n>>
      /\ Bucket(events[j]) = Bucket(events[k])

\* every report of the batch falls in the bucket of the last report that the
\* batch before it had for the same hat or axis
Repeated(before, events) ==
  \A k \in DOMAIN events :
    \E j \in DOMAIN before :
      /\ Bucket(before[j]) = Bucket(events[k])
      /\ \A i \in (j + 1)..Len(before) :
           <<before[i].type, before[i].n>> # <<before[j].type, before[j].n>>

\* C17: a batch of motion reports makes plus() and minus() calls only with
\* virtual-button indexes; the calls with one index are plus and minus in
\* turn, from one batch to the next, beginning with plus exactly if the index
\* was stored False, and the stored state is that of the last call; a batch
\* whose reports all repeat the bucket of the report before them makes no call
\* and appends no event; a batch whose reports for each hat or axis all fall
\* in one bucket makes at most one call with each index.
C17_AxisForwardedOnChange ==
  [][op'.name = "pump" =>
       /\ \A k \in DOMAIN net'.calls : net'.calls[k][2] \in VirtualButtons
       /\ \A a \in VirtualButtons :
            InTurn(CallsWith(net'.calls, a), a \in net.c.axis_state,
                   a \in net'.c.axis_state)
       /\ (op.name = "pump" /\ Repeated(added, added')) =>
            /\ net'.calls = <<>>
            /\ queue' = queue
       /\ Steady(added') =>
            \A a \in VirtualButtons : Len(CallsWith(net'.calls, a)) <= 1]_vars

\* the hat was left and the axis in the centre zone, and a batch has just
\* reported the hat left and the axis at .5: nothing was forwarded
C17_Witness ==
  /\ op.name = "pump"
  /\ added = <<JoyHatMotion(0, -1, 0), JoyAxisMotion(0, 5)>>
  /\ net.calls = <<>>
  /\ {MAX_BUTTONS, MAX_BUTTONS + 4, MAX_BUTTONS + 7} \subseteq net.c.axis_state

\* the 21 events of the hat moved once round
RoundEvents ==
  << <<0, LEFT>>, <<0, UPRIGHT>>, <<0, UP>>, <<0, -UPRIGHT>>, <<0, -LEFT>>,
     <<0, UPLEFT>>, <<0, -UPLEFT>>, <<0, RIGHT>>, <<0, -UP>>, <<0, UPRIGHT>>,
     <<0, -UPRIGHT>>, <<0, DOWN>>, <<0, UPLEFT>>, <<0, -RIGHT>>, <<0, LEFT>>,
     <<0, -UPLEFT>>, <<0, -LEFT>>, <<0, UPLEFT>>, <<0, UPRIGHT>>, <<0, CENTER>>,
     <<0, -DOWN>> >>

TextTeach ==
  << [inputs |-> <<Axis(0, 0)>>, outputs |-> <<Out("P1_LEFT")>>],
     [inputs |-> <<Num(0)>>,     outputs |-> <<Out("P1_BUTTON_0")>>] >>

\* the button alone, the button with the hat going left and back, the button
\* three times in one batch, and the hat alone
TeachBatches ==
  { <<JoyButtonDown(0)>>, <<JoyButtonUp(0)>>,
    <<JoyButtonDown(0), JoyHatMotion(0, -1, 0)>>,
    <<JoyButtonUp(0), JoyHatMotion(0, 0, 0)>>,
    <<JoyButtonDown(0), JoyButtonUp(0), JoyButtonDown(0)>>,
    <<JoyHatMotion(0, -1, 0)>>, <<JoyHatMotion(0, 0, 0)>> }

\* a generic button is counted up to MaxTotal times
MaxTotal == 7

Countable ==
  \A e \in DOMAIN net.c.generic_buttons : net.c.generic_buttons[e][1] < MaxTotal

InitTeach == InitController("dict", TextTeach)

\* ui.pump(events)
Teach(events) ==
  /\ Len(queue[EVENT_BUFFER]) <= MaxPending
  /\ Countable
  /\ SetController(pump([m |-> Machine, c |-> net.c, calls |-> <<>>, saves |-> <<>>],
                        events))
  /\ added' = events
  /\ op' = Call("pump", CLONE, Len(events))

\* ui.poll() and ui.poll_dance(), which is poll(False, ...)
\* the heap and the controller after a poll that left q.r and returned q.ret
SetPolled(q, name, due) ==
  /\ SetController(q.r)
  /\ op' = Call(name, IF due THEN 1 ELSE 0, q.ret)

Poll(autorepeat, events, due) ==
  /\ Countable
  /\ queue[EVENT_BUFFER] # <<>> => events = <<>>
  /\ SetPolled(poll([m |-> Machine, c |-> net.c, calls |-> <<>>, saves |-> <<>>],
                    autorepeat, events, due),
               IF autorepeat THEN "poll" ELSE "poll_dance", due)
  /\ added' = events

NextTeach ==
  \/ \E events \in TeachBatches : Teach(events)
  \/ \E events \in TeachBatches \cup {<<>>}, due \in BOOLEAN : Poll(TRUE, events, due)
  \/ \E events \in TeachBatches \cup {<<>>}, due \in BOOLEAN : Poll(FALSE, events, due)

SpecTeach == InitTeach /\ [][NextTeach]_vars

\* the open events of the valves that button b feeds directly
Bound(b) ==
  IF b \in DOMAIN plumbing[CLONE].container
  THEN {valve[plumbing[CLONE].container[b][k].id].open :
          k \in {j \in DOMAIN plumbing[CLONE].container[b] :
                   plumbing[CLONE].container[b][j].t = "V"}}
  ELSE {}

\* a step that pumps a batch, by pump() or by poll() on an empty event buffer
Pumps == op'.name = "pump" \/ (op'.name \in {"poll", "poll_dance"} /\ added' # <<>>)

\* the generic button of the controller and its event
Button0 == GENERIC_BUTTON + 0
Button0Event == <<ShiftLeft(JOY), Button0>>

\* C21 as stated: a generic button counted 6 times, 5 of them together with
\* LEFT, has been reclassified at the sixth press, so that no entry stands at
\* total 6 with LEFT 5.
C21_FiveOfSix ==
  \A e \in DOMAIN net.c.generic_buttons :
    ~(net.c.generic_buttons[e][1] = 6 /\ net.c.generic_buttons[e][2] = 5)

\* C21: a generic button counted 5 times, each time together with LEFT, is
\* reclassified to LEFT by the batch that counts it a sixth time together with
\* LEFT: from then on it feeds the LEFT valve of the player.  Once it does, a
\* press of the button alone, the hat not left, appends (0, LEFT), the release
\* appends (0, -LEFT), no batch appends an event of the generic button, and no
\* entry of generic_buttons is created or changed.
C21_LearnedLeft ==
  [][/\ ( /\ op'.name = "pump"
          /\ Button0 \in DOMAIN net.c.generic_buttons
          /\ net.c.generic_buttons[Button0] = <<5, 5, 0, 0, 0>>
          /\ added' = <<JoyButtonDown(0), JoyHatMotion(0, -1, 0)>>
          /\ 0 \notin pressed[CLONE] /\ MAX_BUTTONS \notin net.c.axis_state )
         => /\ Bound(0)' = {<<0, LEFT>>}
            /\ Len(net'.saves) = 1
            /\ Button0 \notin DOMAIN net'.c.generic_buttons
     /\ Bound(0) = {<<0, LEFT>>}
         => /\ net'.c.generic_buttons = net.c.generic_buttons
            /\ net'.saves = <<>>
            /\ Bound(0)' = {<<0, LEFT>>}
            /\ op'.name = "pump" => \A k \in DOMAIN Fresh : Fresh[k][2] \in {LEFT, -LEFT}
            /\ (op'.name = "pump" /\ MAX_BUTTONS \notin net.c.axis_state
                  /\ added' = <<JoyButtonDown(0)>> /\ 0 \notin pressed[CLONE])
                 => Fresh = << <<0, LEFT>> >>
            /\ (op'.name = "pump" /\ MAX_BUTTONS \notin net.c.axis_state
                  /\ added' = <<JoyButtonUp(0)>> /\ 0 \in pressed[CLONE])
                 => Fresh = << <<0, -LEFT>> >>]_vars

\* the sixth press together with LEFT has just rebound the button to LEFT and
\* its entry is gone
C21_Witness ==
  /\ op.name = "pump"
  /\ added = <<JoyButtonDown(0), JoyHatMotion(0, -1, 0)>>
  /\ Len(net.saves) = 1
  /\ Bound(0) = {<<0, LEFT>>}
  /\ net.c.generic_buttons = <<>>

(***************************************************************************)
(* The threshold check of _handle_generic_buttons, applied to counters     *)
(* that it has left standing.  Here added is the set of direction events   *)
(* that the batch appended (active).                                       *)
(***************************************************************************)
\* A- = P1_LEFT / A+ = P1_RIGHT / B- = P1_UP / B+ = P1_DOWN / 0 = P1_BUTTON_0
TextRule ==
  << [inputs |-> <<Axis(0, 0)>>, outputs |-> <<Out("P1_LEFT")>>],
     [inputs |-> <<Axis(0, 2)>>, outputs |-> <<Out("P1_RIGHT")>>],
     [inputs |-> <<Axis(1, 0)>>, outputs |-> <<Out("P1_UP")>>],
     [inputs |-> <<Axis(1, 2)>>, outputs |-> <<Out("P1_DOWN")>>],
     [inputs |-> <<Num(0)>>,     outputs |-> <<Out("P1_BUTTON_0")>>] >>

Directions == <<LEFT, RIGHT, UP, DOWN>>

\* what "if gen[0] > MIN_LEARN_GENERIC_BUTTON_COUNT" and its loop decide for
\* counters: a direction, "independent" or "none"
Decision(gen) ==
  LET hit == {i \in 1..4 : gen[i + 1] * 100 > LEARN_GENERIC_BUTTON_DIRECTION * gen[1]}
      ind == {i \in 1..4 : gen[i + 1] * 100 < LEARN_GENERIC_BUTTON_INDEPENDENT * gen[1]}
  IN IF gen[1] > MIN_LEARN_GENERIC_BUTTON_COUNT /\ hit # {}
     THEN "direction"
     ELSE IF gen[1] > MIN_LEARN_GENERIC_BUTTON_COUNT /\ ind = 1..4
     THEN "independent"
     ELSE "none"

\* counters that the handler leaves standing: totals from 4 to 6, each
\* direction counted 0, 2, 3, 5 or 6 times and no more often than the total
RuleCounters ==
  {gen \in [1..5 -> {0, 2, 3, 4, 5, 6}] :
     /\ gen[1] \in 4..6
     /\ \A i \in 2..5 : gen[i] # 4 /\ gen[i] <= gen[1]
     /\ Decision(gen) = "none"}

ActiveSets ==
  { {}, {<<0, LEFT>>}, {<<0, RIGHT>>}, {<<0, LEFT>>, <<0, RIGHT>>},
    {<<0, UP>>, <<0, DOWN>>}, {<<0, RIGHT>>, <<0, UP>>, <<0, DOWN>>} }

InitRule ==
  LET r == set_controller_plumbing(Parsed("dict", TextRule))
  IN /\ valve = r.m.valve
     /\ fork = r.m.fork
     /\ queue = r.m.queue
     /\ hist = r.m.hist
     /\ plumbing = r.m.plumbing
     /\ \E gen \in RuleCounters :
          net = [c |-> [r.c EXCEPT !.generic_buttons = (Button0 :> gen)],
                 calls |-> <<>>, saves |-> <<>>]
     /\ added = {}
     /\ pressed = (CLONE :> {})
     /\ op = Call("clone", CLONE, 0)

\* one turn of "for (pid, evid) in generic" for the event of the button
CountOne(active) ==
  /\ Bound(0) = {Button0Event}
  /\ Countable
  /\ SetController(CountGeneric([m |-> Machine, c |-> net.c, calls |-> <<>>,
                                 saves |-> <<>>], Button0Event, active))
  /\ added' = active
  /\ op' = Call("count", CLONE, 0)

NextRule == \E active \in ActiveSets : CountOne(active)

SpecRule == InitRule /\ [][NextRule]_vars

\* the counters of the button after one more occurrence with these directions
Counted(gen, active) ==
  <<gen[1] + 1>> \o [i \in 1..4 |-> gen[i + 1] + IF <<0, Directions[i]>> \in active THEN 1 ELSE 0]

\* the directions counted in more than .85 of the occurrences
Over(gen) == {i \in 1..4 : gen[i + 1] * 100 > 85 * gen[1]}

\* C22: the occurrence of a generic button is counted; while the total is at
\* most 5 nothing is reclassified; past 5 the button is bound to the first of
\* LEFT, RIGHT, UP, DOWN counted in more than .85 of the occurrences, or, when
\* all four are counted in less than .5 of them, to (-1, PASS), and in either
\* case its entry is deleted and one save follows; in every other case the
\* plumbing is as it was and the counters stand incremented.  One occurrence
\* reclassifies at most once.
C22_ReclassificationRule ==
  [][op'.name = "count" =>
       LET gen == Counters(net.c.generic_buttons, Button0)
           new == Counted(gen, added')
           same == /\ plumbing' = plumbing /\ valve' = valve /\ fork' = fork
                   /\ net'.c.generic_buttons = (Button0 :> new)
                   /\ net'.saves = <<>>
       IN /\ Len(net'.saves) <= 1
          /\ IF new[1] <= 5 THEN same
             ELSE IF Over(new) # {}
             THEN /\ Bound(0)' = {<<0, Directions[CHOOSE i \in Over(new) :
                                                   \A j \in Over(new) : i <= j]>>}
                  /\ Len(net'.saves) = 1
                  /\ net'.c.generic_buttons = <<>>
             ELSE IF \A i \in 1..4 : new[i + 1] * 100 < 50 * new[1]
             THEN /\ Bound(0)' = {<<-1, PASS>>}
                  /\ Len(net'.saves) = 1
                  /\ net'.c.generic_buttons = <<>>
             ELSE same]_vars

\* LEFT and RIGHT were both counted with 6 of 7 occurrences: the button is LEFT
C22_Witness ==
  /\ op.name = "count"
  /\ added = {<<0, LEFT>>, <<0, RIGHT>>}
  /\ Bound(0) = {<<0, LEFT>>}
  /\ Len(net.saves) = 1

C24_StatisticsDestroyed ==
  Bound(0) # {Button0Event} => Button0 \notin DOMAIN net.c.generic_buttons

\* C25: a batch calls save_to_disk() exactly if it reclassifies the button, and
\* then once; what is saved is the plumbing as the batch leaves it, which is not
\* the plumbing before the batch, and at the call the entry of the button is
\* deleted.
C25_SavedAfterLearning ==
  [][(op'.name \in {"pump", "poll", "poll_dance"}) =>
       /\ Len(net'.saves) = IF Bound(0)' # Bound(0) THEN 1 ELSE 0
       /\ \A k \in DOMAIN net'.saves :
            /\ net'.saves[k].text = repr(Machine', CLONE, FALSE)
            /\ net'.saves[k].text # repr(Machine, CLONE, FALSE)
            /\ net'.saves[k].oldevid = Button0
            /\ Button0 \notin DOMAIN net'.saves[k].generic_buttons]_vars

\* poll() has just pumped the batch that taught the button LEFT, and what was
\* saved has the button at P1_LEFT
C25_Witness ==
  /\ op.name = "poll"
  /\ Len(net.saves) = 1
  /\ net.saves[1].text = repr(Machine, CLONE, FALSE)
  /\ \E k \in DOMAIN net.saves[1].text :
       /\ net.saves[1].text[k].inputs = <<Num(0)>>
       /\ net.saves[1].text[k].outputs = <<Out("P1_LEFT")>>

\* the events of a buffer that are not events of generic buttons
NonGeneric(buf) ==
  SelectSeq(buf, LAMBDA e : e[2] < GENERIC_BUTTON /\ e[2] > -GENERIC_BUTTON)

\* a step of poll() or poll_dance()
Polls == op'.name \in {"poll", "poll_dance"}

\* the event buffer that poll() finds, or fills from the batch it pumps
Pending ==
  IF queue[EVENT_BUFFER] # <<>> THEN queue[EVENT_BUFFER]
  ELSE pump([m |-> Machine, c |-> net.c, calls |-> <<>>, saves |-> <<>>],
            added').m.queue[EVENT_BUFFER]

C27_SentinelOnlyWhenEmpty ==
  [][Polls =>
       /\ op'.i = <<-1, PASS>> => queue'[EVENT_BUFFER] = <<>>
       /\ NonGeneric(Pending) # <<>> => op'.i[2] # PASS]_vars

\* the valves of the controller's plumbing that auto-repeat re-sends
Held ==
  {v \in ValveSet(Machine, CLONE) :
     valve[v].pressure > 0 /\ valve[v].open \in REPEATABLE}

\* a poll() or poll_dance() that pumps nothing and finds no event to return
Idle == Polls /\ added' = <<>> /\ NonGeneric(queue[EVENT_BUFFER]) = <<>>

\* C28: auto-repeat changes no valve, fork, binding or device state; poll()
\* with the repeat due appends the open event once for each distinct held valve
\* whose open event is in REPEATABLE (the first is returned at once) and nothing
\* else; poll_dance(), and poll() when the repeat is not due, append nothing.
C28_RepeatOnlyAppends ==
  [][Idle =>
       /\ UNCHANGED <<valve, fork, plumbing, pressed>>
       /\ net'.c = net.c
       /\ IF op'.name = "poll" /\ op'.p = 1 /\ Held # {}
          THEN /\ Len(queue'[EVENT_BUFFER]) + 1 = Cardinality(Held)
               /\ {op'.i} \cup Elems(queue'[EVENT_BUFFER]) = {valve[v].open : v \in Held}
          ELSE /\ op'.i = <<-1, PASS>>
               /\ queue'[EVENT_BUFFER] = <<>>]_vars

\* poll() has repeated (0, LEFT) of the valve that the hat and the learned
\* button both hold open, once
C28_Witness ==
  /\ op.name = "poll" /\ op.p = 1 /\ added = <<>>
  /\ op.i = <<0, LEFT>>
  /\ queue[EVENT_BUFFER] = <<>>
  /\ Bound(0) = {<<0, LEFT>>}
  /\ \E v \in Held : valve[v].pressure = 2

(***************************************************************************)
(* The order of the events of one batch: a controller whose blueprint      *)
(* declares a two-button combination before and after a single button.     *)
(***************************************************************************)
TextOrder ==
  << [inputs |-> <<Num(0), Num(1)>>, outputs |-> <<Out("QUIT")>>],
     [inputs |-> <<Num(0)>>,         outputs |-> <<Out("P1_UP")>>],
     [inputs |-> <<Num(0), Num(1)>>, outputs |-> <<Out("CANCEL")>>],
     [inputs |-> <<Num(1)>>,         outputs |-> <<Out("P1_DOWN")>>] >>

OrderPool == {JoyButtonDown(0), JoyButtonUp(0), JoyButtonDown(1), JoyButtonUp(1)}

InitOrder == InitController("dict", TextOrder)

NextOrder ==
  \/ \E events \in Batches(OrderPool) : Pump(events)
  \/ Clear

SpecOrder == InitOrder /\ [][NextOrder]_vars

\* the line of the blueprint that declares the output an event belongs to
LineOf(e) ==
  CHOOSE l \in DOMAIN TextOrder :
    \E o \in DOMAIN TextOrder[l].outputs :
      NameEvent(TextOrder[l].outputs[o].name) \in {e, <<e[1], -e[2]>>}

\* the events of a batch, by ascending button
ByIndex(events) ==
  IF Len(events) = 2 /\ events[1].n > events[2].n
  THEN <<events[2], events[1]>> ELSE events

\* what pump(events) appends to the event buffer in the current state
PumpAppends(events) ==
  LET buf == pump([m |-> Machine, c |-> net.c, calls |-> <<>>, saves |-> <<>>],
                  events).m.queue[EVENT_BUFFER]
  IN SubSeq(buf, Len(queue[EVENT_BUFFER]) + 1, Len(buf))

\* C29 as stated: the events of a batch are those of its raw events taken by
\* ascending index, and the events of one index come in the order of the lines
\* of the blueprint that declare them.
C29_DeclarationOrder ==
  [][op'.name = "pump" =>
       /\ Appended = PumpAppends(ByIndex(added'))
       /\ Len(added') = 1 =>
            \A a, b \in DOMAIN Appended :
              a < b => LineOf(Appended[a]) <= LineOf(Appended[b])]_vars

RECURSIVE OpenOf(_, _, _)
\* the open (closed) events of the valves of vs that are at pressure 0 (1)
OpenOf(m, vs, press) ==
  IF vs = <<>> THEN <<>>
  ELSE LET v == m.valve[Head(vs)]
       IN (IF press /\ v.pressure = 0 THEN <<v.open>>
           ELSE IF ~press /\ v.pressure = 1 THEN <<v.closed>>
           ELSE <<>>) \o OpenOf(m, Tail(vs), press)

RECURSIVE ListOrder(_, _, _)
\* the events of the entries of one index's list, in the order of the list; a
\* fork stands for its output valves in their order
ListOrder(m, entries, press) ==
  IF entries = <<>> THEN <<>>
  ELSE LET x == Head(entries)
       IN (IF x.t = "V" THEN OpenOf(m, <<x.id>>, press)
           ELSE IF m.fork[x.id].pressure = (IF press THEN 0 ELSE 1)
           THEN OpenOf(m, m.fork[x.id].output_valves, press)
           ELSE <<>>) \o ListOrder(m, Tail(entries), press)

\* what one raw button event makes the plumbing append, in the heap r.m with
\* the controller r.c
Expected(r, event) ==
  LET press == event.type = "JOYBUTTONDOWN"
  IN IF press = (event.n \in r.c.button_state) THEN <<>>
     ELSE ListOrder(r.m, r.m.plumbing[CLONE].container[event.n], press)

RECURSIVE ExpectedAll(_, _)
\* the raw events of a batch, one after the other
ExpectedAll(r, events) ==
  IF events = <<>> THEN <<>>
  ELSE Expected(r, Head(events)) \o ExpectedAll(pump_event(r, Head(events)), Tail(events))

\* C29, amended: the events of a batch are those of its raw events in the
\* order of the batch; the events of one raw event follow the list of its
\* index, where a fork has the place of the first line that declared its
\* combination and sends all its outputs there, in the order of its output
\* list.
C29_BatchOrder ==
  [][op'.name = "pump" =>
       Appended = ExpectedAll([m |-> Machine, c |-> net.c, calls |-> <<>>,
                               saves |-> <<>>], added')]_vars

\* button 0 was pressed while button 1 was held: QUIT and CANCEL of the
\* combination come before UP, which the blueprint declares between them
C29_Witness ==
  /\ op.name = "pump" /\ added = <<JoyButtonDown(0)>>
  /\ queue[EVENT_BUFFER] = << <<-1, QUIT>>, <<-1, CANCEL>>, <<0, UP>> >>

(***************************************************************************)
(* UI.init_controllers, by object identity: net is the UI with its          *)
(* controller_names and controllers, the heap ctl of Controller objects and *)
(* the heap pb of the EventPlumbing objects that get_plumbing() returned.   *)
(***************************************************************************)
DeviceNames == {"pad", "mat"}

\* device lists have up to MaxDevices sticks; rescans stop when the heap of
\* Controller objects could exceed MaxObjects
MaxDevices == 3
MaxObjects == 5

DeviceLists == UNION {[1..n -> DeviceNames] : n \in 0..MaxDevices}

\* idx: the number of controllers of the same name that precede controller i
Ordinal(names, i) == Cardinality({k \in 1..(i - 1) : names[k] = names[i]})

\* mutant: the first old controller of that name corresponds
FindOld_byname(old_names, name, idx) ==
  LET ks == {k \in DOMAIN old_names : old_names[k] = name}
  IN IF ks = {} THEN 0 ELSE CHOOSE k \in ks : \A j \in ks : k <= j

\* the inner loop over self.controller_names: the entry of that name that has
\* idx entries of the name before it, or 0 when the loop ends without a break
FindOld(old_names, name, idx) ==
  LET ks == {k \in DOMAIN old_names :
               old_names[k] = name /\ Ordinal(old_names, k) = idx}
  IN IF ks = {} THEN 0 ELSE CHOOSE k \in ks : TRUE

\* Controller(stick), before its plumbing is assigned
Controller_init(stick) == [pygame |-> stick, plumbing |-> 0]

\* get_plumbing(name, idx): a clone of a template or of the default plumbing,
\* an object that did not exist before; no generic button is learned in it
get_plumbing(name, idx) == [name |-> name, idx |-> idx, fixup |-> -1, learned |-> FALSE]

RECURSIVE InitLoop(_, _, _, _)
\* the loop "while i < len(controller_names)" and the two assignments after it
InitLoop(u, controller_names, i, controllers) ==
  IF i > Len(controller_names)
  THEN [u EXCEPT !.controllers = controllers, !.controller_names = controller_names]
  ELSE LET name == controller_names[i]
           idx  == Ordinal(controller_names, i)
           k    == FindOld(u.controller_names, name, idx)
           joy  == Len(controllers)
           c    == IF k # 0 THEN u.controllers[k] ELSE Len(u.ctl) + 1
           u1   == IF k # 0
                   THEN [u EXCEPT !.ctl[c].pygame = i]
                   ELSE [u EXCEPT !.ctl = Append(@, [Controller_init(i) EXCEPT
                                                       !.plumbing = Len(u.pb) + 1]),
                                  !.pb = Append(@, get_plumbing(name, idx))]
           u2   == [u1 EXCEPT !.pb[u1.ctl[c].plumbing].fixup = joy]
       IN InitLoop(u2, controller_names, i + 1, Append(controllers, c))

\* init_controllers() when the rescan is not skipped and finds controller_names
init_controllers(u, controller_names) ==
  IF controller_names # u.controller_names
  THEN InitLoop(u, controller_names, 1, <<>>)
  ELSE u

\* force_init_controllers()
force_init_controllers(u, controller_names) ==
  init_controllers([u EXCEPT !.controllers = <<>>, !.controller_names = <<>>],
                   controller_names)

\* UI.__init__: no controllers, then init_controllers()
InitDevices ==
  /\ \E names \in DeviceLists :
       /\ net = init_controllers([controller_names |-> <<>>, controllers |-> <<>>,
                                  ctl |-> <<>>, pb |-> <<>>], names)
       /\ added = names
  /\ valve = <<>>
  /\ fork = <<>>
  /\ queue = (EVENT_BUFFER :> <<>>)
  /\ hist = <<>>
  /\ plumbing = <<>>
  /\ pressed = <<>>
  /\ op = Call("init", 0, 0)

\* poll() finds the device nodes changed and rescans
InitControllers(names) ==
  /\ Len(net.ctl) + Len(names) <= MaxObjects
  /\ net' = init_controllers(net, names)
  /\ added' = names
  /\ op' = Call("init_controllers", 0, 0)
  /\ UNCHANGED <<valve, fork, queue, hist, plumbing, pressed>>

ForceInitControllers(names) ==
  /\ Len(net.ctl) + Len(names) <= MaxObjects
  /\ net' = force_init_controllers(net, names)
  /\ added' = names
  /\ op' = Call("force_init_controllers", 0, 0)
  /\ UNCHANGED <<valve, fork, queue, hist, plumbing, pressed>>

\* _learn_generic_button(joy, ...) rewires the plumbing of controller joy
LearnOn(joy) ==
  /\ joy + 1 \in DOMAIN net.controllers
  /\ ~net.pb[net.ctl[net.controllers[joy + 1]].plumbing].learned
  /\ net' = [net EXCEPT !.pb[net.ctl[net.controllers[joy + 1]].plumbing].learned = TRUE]
  /\ op' = Call("learn", joy, 0)
  /\ UNCHANGED <<valve, fork, queue, hist, plumbing, pressed, added>>

NextDevices ==
  \/ \E names \in DeviceLists : InitControllers(names)
  \/ \E names \in DeviceLists : ForceInitControllers(names)
  \/ \E joy \in 0..(MaxDevices - 1) : LearnOn(joy)

SpecDevices == InitDevices /\ [][NextDevices]_vars

\* the place in the old device list of the device at place i of the new one:
\* same name and same ordinal among the devices of that name, or 0
Predecessor(i) ==
  LET ks == {k \in DOMAIN net.controller_names :
               /\ net.controller_names[k] = net'.controller_names[i]
               /\ Ordinal(net.controller_names, k) = Ordinal(net'.controller_names, i)}
  IN IF ks = {} THEN 0 ELSE CHOOSE k \in ks : TRUE

\* C30: when init_controllers() finds another device list, a device with a
\* predecessor of the same name and ordinal keeps the predecessor's Controller
\* and its plumbing object, learned rewirings included; a device without one
\* gets a Controller and a plumbing that did not exist before; no two devices
\* of the new list share a Controller or a plumbing.
C30_ControllersReused ==
  [][(op'.name = "init_controllers" /\ net'.controller_names # net.controller_names) =>
       /\ \A i \in DOMAIN net'.controllers :
            LET c == net'.controllers[i]
                k == Predecessor(i)
            IN IF k # 0
               THEN /\ c = net.controllers[k]
                    /\ net'.ctl[c].plumbing = net.ctl[c].plumbing
                    /\ net'.pb[net'.ctl[c].plumbing].learned
                         = net.pb[net.ctl[c].plumbing].learned
               ELSE /\ c \notin DOMAIN net.ctl
                    /\ net'.ctl[c].plumbing \notin DOMAIN net.pb
                    /\ ~net'.pb[net'.ctl[c].plumbing].learned
       /\ \A i, j \in DOMAIN net'.controllers :
            i # j => /\ net'.controllers[i] # net'.controllers[j]
                     /\ net'.ctl[net'.controllers[i]].plumbing
                          # net'.ctl[net'.controllers[j]].plumbing
       /\ Len(net'.controllers) = Len(net'.controller_names)]_vars

\* a second pad was plugged in after the first pad had learned a button: the
\* first keeps its learned plumbing, the second has a new one
C30_Witness ==
  /\ op.name = "init_controllers"
  /\ net.controller_names = <<"pad", "mat", "pad">>
  /\ net.controllers = <<1, 3, 2>>
  /\ net.pb[net.ctl[1].plumbing].learned
  /\ ~net.pb[net.ctl[3].plumbing].learned

(***************************************************************************)
(* EventPlumbing.visit on the networks that add() builds: the template of  *)
(* the build specification, visited between the add() calls.  Here net is  *)
(* the list of the visitor.visit(inputs, outputs) calls of the last pass.  *)
(***************************************************************************)
\* pb.visit(visitor), with a visitor that records its calls
Visit ==
  /\ net' = visit(Machine, TEMPLATE)
  /\ op' = Call("visit", TEMPLATE, Len(added))
  /\ UNCHANGED <<valve, fork, queue, hist, plumbing, pressed, added>>

NextVisit ==
  \/ NextBuild
  \/ Visit

SpecVisit == InitBuild /\ [][NextVisit]_vars

\* a valve is visited where it is attached, a fork at the last of its indexes
Fires(it) ==
  it.x.t = "V" \/ \A i \in IndexesOf(Machine, TEMPLATE, it.x) : i <= it.idx

\* the call for an entry: its index and the valve, or all the indexes of the
\* fork in ascending order and the fork's outputs
CallFor(it) ==
  IF it.x.t = "V"
  THEN [inputs |-> <<it.idx>>, outputs |-> <<it.x.id>>]
  ELSE [inputs |-> SetToSeq(IndexesOf(Machine, TEMPLATE, it.x)),
        outputs |-> fork[it.x.id].output_valves]

\* the entries of the lists that fire, indexes ascending, each list in its order
Firing == SelectSeq(Flatten(plumbing[TEMPLATE].container), Fires)

\* C31: a pass of visit() calls the visitor once for every valve attached to an
\* index, with that index, and once for every fork, when the last of the fork's
\* indexes is reached, with all its indexes in ascending order and its
\* outputs; the calls follow the ascending indexes and the order of each list;
\* the next pass over the same network makes the same calls.
C31_VisitDeterministic ==
  op.name = "visit" /\ op.i = Len(added) =>
    /\ net = [k \in DOMAIN Firing |-> CallFor(Firing[k])]
    /\ visit(Machine, TEMPLATE) = net
    /\ \A f \in ForksOf(Machine, TEMPLATE) :
         Cardinality({k \in DOMAIN net :
                        /\ net[k].outputs = fork[f].output_valves
                        /\ Elems(net[k].inputs) = IndexesOf(Machine, TEMPLATE, FRef(f))
                        /\ Len(net[k].inputs) = 1 - fork[f].start_pressure}) = 1

\* a network with a fork of three indexes and a fork of two was visited: the
\* fork of 0, 1 and 2 is called after that of 0 and 1
C31_Witness ==
  /\ op.name = "visit" /\ op.i = Len(added)
  /\ \E j, k \in DOMAIN net :
       /\ j < k
       /\ net[j].inputs = <<0, 1>>
       /\ net[k].inputs = <<0, 1, 2>>

\* the forks of the template that are attached at exactly the indexes S
ForksAt(m, S) == {f \in ForksOf(m, TEMPLATE) : IndexesOf(m, TEMPLATE, FRef(f)) = S}

\* C32: after every add(), a fork with start pressure -(k-1) is in the lists of
\* exactly k indexes, once in each, and no two forks have the same indexes; an
\* add() with several inputs changes only the fork attached at exactly these
\* inputs if there is one, and otherwise attaches a new fork at exactly these
\* inputs and leaves the other forks as they are.
C32_ForkPerInputSet ==
  [][op'.name = "add" =>
       LET S == Elems(added'[Len(added')].inputs)
       IN /\ \A f \in ForksOf(Machine', TEMPLATE) :
               /\ Cardinality(IndexesOf(Machine', TEMPLATE, FRef(f)))
                    = 1 - fork'[f].start_pressure
               /\ \A i \in IndexesOf(Machine', TEMPLATE, FRef(f)) :
                    TimesIn(plumbing'[TEMPLATE].container[i], FRef(f)) = 1
               /\ ForksAt(Machine', IndexesOf(Machine', TEMPLATE, FRef(f))) = {f}
          /\ Cardinality(S) > 1 =>
               /\ \A f \in DOMAIN fork :
                    /\ IndexesOf(Machine', TEMPLATE, FRef(f))
                         = IndexesOf(Machine, TEMPLATE, FRef(f))
                    /\ f \notin ForksAt(Machine, S) => fork'[f] = fork[f]
               /\ IF ForksAt(Machine, S) # {}
                  THEN DOMAIN fork' = DOMAIN fork /\ plumbing' = plumbing
                  ELSE \E n \in (DOMAIN fork') \ (DOMAIN fork) :
                         /\ DOMAIN fork' = (DOMAIN fork) \cup {n}
                         /\ ForksAt(Machine', S) = {n}]_vars

\* inputs 0 and 1 were added when only the fork of 0, 1 and 2 and the fork of 1
\* and 2 existed: a third fork was made for them
C32_Witness ==
  /\ op.name = "add"
  /\ Len(added) = 3
  /\ Elems(added[3].inputs) = {0, 1}
  /\ Cardinality(DOMAIN fork) = 3
  /\ ForksAt(Machine, {0, 1, 2}) # {}
  /\ ForksAt(Machine, {1, 2}) # {}
  /\ ForksAt(Machine, {0, 1}) = {3}

\* some valve of plumbing p with pid < 0 is disabled
MenuDisabled(m, p) ==
  \E v \in ValveSet(m, p) : m.valve[v].open[1] < 0 /\ ~m.valve[v].enabled

\* C33: after menu_controls_enabled(onoff) the plumbing's menuing_disabled is
\* true exactly when one of its valves with pid < 0 is disabled, and the clone
\* of a plumbing whose menu controls were just enabled has none disabled.
C33_FlagTracksDisabled ==
  [][/\ op'.name = "menable" =>
          plumbing'[op'.p].menuing_disabled = MenuDisabled(Machine', op'.p)
     /\ (op.name = "menable" /\ op.i = 1 /\ op.p = TEMPLATE /\ op'.name = "clone") =>
          ~MenuDisabled(Machine', CLONE)]_vars

(***************************************************************************)
(* repr() of a template under construction.  net holds the lines of the    *)
(* last repr().                                                            *)
(***************************************************************************)
Serialize ==
  /\ net' = repr(Machine, TEMPLATE, FALSE)
  /\ op' = Call("repr", TEMPLATE, Len(added))
  /\ UNCHANGED <<valve, fork, queue, hist, plumbing, pressed, added>>

NextSerial ==
  \/ NextBuild
  \/ Serialize

SpecSerial == InitBuild /\ [][NextSerial]_vars

\* the input words of a line for the index set S: ascending
Words(S) == [k \in 1..Cardinality(S) |-> InputString(SetToSeq(S)[k], FALSE)]

\* the add() calls made with the index set S, in their order
AddedAt(S) == SelectSeq(added, LAMBDA a : Elems(a.inputs) = S)

\* the lines of net that start with the input words of S
LinesAt(S) == {k \in DOMAIN net : net[k].inputs = Words(S)}

\* the index sets add() was called with
AddedSets == {Elems(added[k].inputs) : k \in DOMAIN added}

\* the line PlumbingStringer writes for an entry that fires
LineFor(it) ==
  [inputs |-> [k \in DOMAIN CallFor(it).inputs |->
                 InputString(CallFor(it).inputs[k], FALSE)],
   outputs |-> OutputStrings(Machine, CallFor(it).outputs)]

\* C34 as stated: every index set of the network is on exactly one line of
\* repr(), and that line lists all the outputs fed by the set.
C34_OneLinePerInputSet ==
  op.name = "repr" /\ op.i = Len(added) =>
    \A S \in AddedSets :
      /\ Cardinality(LinesAt(S)) = 1
      /\ \A k \in LinesAt(S) :
           {o.name : o \in Elems(net[k].outputs)} =
             {a.name : a \in Elems(AddedAt(S))}

RECURSIVE FirstOnes(_)
\* the names of a sequence of add() calls, each at its first place only
FirstOnes(seq) ==
  IF seq = <<>> THEN <<>>
  ELSE IF seq[Len(seq)].name \in Elems(FirstOnes(SubSeq(seq, 1, Len(seq) - 1)))
       THEN FirstOnes(SubSeq(seq, 1, Len(seq) - 1))
       ELSE Append(FirstOnes(SubSeq(seq, 1, Len(seq) - 1)), seq[Len(seq)].name)

\* C34: repr() writes one line for every distinct output attached to a
\* single index, with that index and that one output, and one line for every
\* fork, with the fork's indexes in ascending order and all its distinct
\* outputs in the order they were added, so a set of several indexes is on
\* exactly one line; the lines follow the order of visit().
C34_OneLinePerValveOrFork ==
  op.name = "repr" /\ op.i = Len(added) =>
    /\ net = [k \in DOMAIN Firing |-> LineFor(Firing[k])]
    /\ Len(net) = Cardinality({<<added[k].inputs, added[k].name>> :
                                k \in {j \in DOMAIN added : Len(added[j].inputs) = 1}})
                    + Cardinality({S \in AddedSets : Cardinality(S) > 1})
    /\ \A S \in AddedSets :
         IF Cardinality(S) = 1
         THEN /\ Cardinality(LinesAt(S)) = Len(FirstOnes(AddedAt(S)))
              /\ \A k \in LinesAt(S) : Len(net[k].outputs) = 1
              /\ \A a \in Elems(AddedAt(S)) :
                   \E k \in LinesAt(S) : net[k].outputs[1].name = a.name
         ELSE /\ Cardinality(LinesAt(S)) = 1
              /\ \A k \in LinesAt(S) :
                   [j \in DOMAIN net[k].outputs |-> net[k].outputs[j].name] =
                     FirstOnes(AddedAt(S))
    /\ \A k \in DOMAIN net : \A j \in DOMAIN net :
         k < j => net[k].inputs[Len(net[k].inputs)].n <= net[j].inputs[Len(net[j].inputs)].n

\* repr() wrote two lines for index 0 and one line for a fork
C34_Witness ==
  /\ op.name = "repr" /\ op.i = Len(added)
  /\ Cardinality(LinesAt({0})) = 2
  /\ \E k \in DOMAIN net : Len(net[k].inputs) > 1

(***************************************************************************)
(* The controllers of the UI with their plumbings in the heap.  net holds  *)
(* controller_names and, for every position of the device list, the        *)
(* plumbing of its controller; added holds the plumbings before the last   *)
(* rescan.                                                                 *)
(***************************************************************************)
\* at most MaxNets plumbings are in the heap
MaxNets == 3

\* 0 = P1_BUTTON_0 P1_UP / 0 1 = QUIT P1_BUTTON_0
BlueprintT ==
  << [inputs |-> {0},    outputs |-> <<Out("P1_BUTTON_0"), Out("P1_UP")>>],
     [inputs |-> {0, 1}, outputs |-> <<Out("QUIT"), Out("P1_BUTTON_0")>>] >>

RECURSIVE TemplateIndexDown_len(_, _)
\* the search downwards that only looks at the length of lst
TemplateIndexDown_len(lst, i) ==
  IF i > 0 /\ i >= Len(lst) THEN TemplateIndexDown_len(lst, i - 1) ELSE i

RECURSIVE TemplateIndexDown(_, _)
\* while i > 0 and (i >= len(lst) or lst[i] is None): i -= 1
TemplateIndexDown(lst, i) ==
  IF i > 0 /\ (i >= Len(lst) \/ lst[i + 1] = 0) THEN TemplateIndexDown(lst, i - 1) ELSE i

RECURSIVE TemplateIndexUp(_, _)
\* while lst[i] is None: i += 1; -1 stands for the IndexError past the end
TemplateIndexUp(lst, i) ==
  IF i >= Len(lst) THEN -1
  ELSE IF lst[i + 1] = 0 THEN TemplateIndexUp(lst, i + 1) ELSE i

\* the ordinal get_plumbing() takes the template of: lst holds the plumbing
\* of every ordinal, 0 for None
TemplateIndex(lst, idx) ==
  IF TemplateIndexDown(lst, idx) >= Len(lst) THEN -1
  ELSE IF lst[TemplateIndexDown(lst, idx) + 1] = 0 THEN TemplateIndexUp(lst, idx)
  ELSE TemplateIndexDown(lst, idx)

\* get_plumbing(name, idx) for a name with the templates lst; c is the new
\* plumbing
get_plumbing_from(m, lst, idx, c) ==
  IF TemplateIndex(lst, idx) # idx
  THEN menu_controls_enabled(
         transpose_player(clone(m, lst[TemplateIndex(lst, idx) + 1], c), c,
                          idx - TemplateIndex(lst, idx)), c, FALSE)
  ELSE clone(m, lst[idx + 1], c)

\* the identity of the next plumbing
NextId(m) == Cardinality(DOMAIN m.plumbing) + 1

\* one turn of the loop of init_controllers(): the old controller is reused
\* with its plumbing, or a new one gets get_plumbing(name, idx)
TagBind(r, idx, k) ==
  IF k # 0 THEN [r EXCEPT !.last = r.controllers[k]]
  ELSE [r EXCEPT !.m = get_plumbing_from(r.m, <<TEMPLATE>>, idx, NextId(r.m)),
                 !.last = NextId(r.m)]

\* controllers[joy].plumbing.visit(GenericButtonsFixup(joy))
TagFix(r, joy) ==
  [r EXCEPT !.m = GenericButtonsFixup_all(r.m, joy, visit(r.m, r.last))]

RECURSIVE TagLoop(_, _, _, _)
TagLoop(r, controller_names, i, controllers) ==
  IF i > Len(controller_names)
  THEN [r EXCEPT !.controllers = controllers, !.controller_names = controller_names]
  ELSE TagLoop(TagFix(TagBind(r, Ordinal(controller_names, i),
                              FindOld(r.controller_names, controller_names[i],
                                      Ordinal(controller_names, i))),
                      Len(controllers)),
               controller_names, i + 1,
               Append(controllers,
                      TagBind(r, Ordinal(controller_names, i),
                              FindOld(r.controller_names, controller_names[i],
                                      Ordinal(controller_names, i))).last))

\* the device lists of the rescans
TagLists == {<<>>, <<"mat">>, <<"pad", "pad">>, <<"pad", "mat">>}

TagState == [m |-> Machine, controller_names |-> net.controller_names,
             controllers |-> net.controllers, last |-> 0]

SetTag(r) ==
  /\ SetMachine(r.m)
  /\ net' = [controller_names |-> r.controller_names, controllers |-> r.controllers]

InitTag ==
  /\ valve = EventPlumbing_init(FreshMachine, TEMPLATE, "dict", BlueprintT).valve
  /\ fork = EventPlumbing_init(FreshMachine, TEMPLATE, "dict", BlueprintT).fork
  /\ queue = EventPlumbing_init(FreshMachine, TEMPLATE, "dict", BlueprintT).queue
  /\ hist = EventPlumbing_init(FreshMachine, TEMPLATE, "dict", BlueprintT).hist
  /\ plumbing = EventPlumbing_init(FreshMachine, TEMPLATE, "dict", BlueprintT).plumbing
  /\ net = [controller_names |-> <<>>, controllers |-> <<>>]
  /\ op = Call("init", 0, 0)
  /\ pressed = <<>>
  /\ added = <<>>

\* init_controllers() finds the device list controller_names
TagInitControllers(controller_names) ==
  /\ controller_names # net.controller_names
  /\ Cardinality(DOMAIN TagLoop(TagState, controller_names, 1, <<>>).m.plumbing) <= MaxNets
  /\ SetTag(TagLoop(TagState, controller_names, 1, <<>>))
  /\ added' = net.controllers
  /\ op' = Call("init_controllers", 0, Len(controller_names))
  /\ UNCHANGED pressed

\* set_controller_plumbing(joy, pb) with a new clone of the template
TagSetControllerPlumbing(joy) ==
  /\ joy + 1 \in DOMAIN net.controllers
  /\ Cardinality(DOMAIN plumbing) < MaxNets
  /\ SetMachine(GenericButtonsFixup_all(clone(Machine, TEMPLATE, NextId(Machine)), joy,
                                        visit(clone(Machine, TEMPLATE, NextId(Machine)),
                                              NextId(Machine))))
  /\ net' = [net EXCEPT !.controllers[joy + 1] = NextId(Machine)]
  /\ op' = Call("set_controller_plumbing", joy, 0)
  /\ UNCHANGED <<pressed, added>>

\* transpose_player(adder) on the plumbing of controller joy
TagTranspose(joy, adder) ==
  /\ joy + 1 \in DOMAIN net.controllers
  /\ SetMachine(transpose_player(Machine, net.controllers[joy + 1], adder))
  /\ op' = Call("transpose", joy, adder)
  /\ UNCHANGED <<net, pressed, added>>

\* _learn_generic_button(joy, oldpid, oldevid, pid, evid)
TagLearn(joy, oldpid, oldevid, new) ==
  /\ joy + 1 \in DOMAIN net.controllers
  /\ \E v \in ValveSet(Machine, net.controllers[joy + 1]) :
       valve[v].open = <<oldpid + ShiftLeft(joy), oldevid>>
  /\ SetMachine(learn_generic_button(Machine, net.controllers[joy + 1],
                                     <<oldpid + ShiftLeft(joy), oldevid>>, new))
  /\ op' = Call("learn", joy, oldevid)
  /\ UNCHANGED <<net, pressed, added>>

NextTag ==
  \/ \E controller_names \in TagLists : TagInitControllers(controller_names)
  \/ \E joy \in 0..1 : TagSetControllerPlumbing(joy)
  \/ \E joy \in 0..1, adder \in {1} : TagTranspose(joy, adder)
  \/ \E joy \in 0..1, oldpid \in 0..(MAX_PLAYERS - 1), oldevid \in {GENERIC_BUTTON} :
        \E new \in {<<oldpid, UP>>, <<-1, PASS>>} :
          TagLearn(joy, oldpid, oldevid, new)

SpecTag == InitTag /\ [][NextTag]_vars

\* C35: every valve of the plumbing of the controller at position j that is
\* open to a generic button has the pid j << 8 plus a player below
\* MAX_PLAYERS, after every rescan, set_controller_plumbing(),
\* transpose_player() and learned button; every valve is closed to the pid
\* and the negated event it is open to.
C35_DeviceTag ==
  /\ \A j \in DOMAIN net.controllers :
       \A v \in ValveSet(Machine, net.controllers[j]) :
         valve[v].open[2] >= GENERIC_BUTTON =>
           /\ ShiftRight(valve[v].open[1]) = j - 1
           /\ valve[v].open[1] - ShiftLeft(j - 1) \in 0..(MAX_PLAYERS - 1)
  /\ \A v \in DOMAIN valve :
       valve[v].closed = <<valve[v].open[1], 0 - valve[v].open[2]>>

\* the rescan moved a controller to position 0 whose plumbing, transposed to
\* player 2, still holds a generic button
C35_Witness ==
  /\ op.name = "init_controllers"
  /\ Len(added) = 2 /\ Len(net.controllers) = 1
  /\ net.controllers[1] = added[2]
  /\ \E v \in ValveSet(Machine, net.controllers[1]) :
       valve[v].open = <<1, GENERIC_BUTTON>>

\* the virtual buttons of the g-th component: x and y of the hat, then the axis
Component(g) == {MAX_BUTTONS + 3 * g + k : k \in 0..2}

\* C36: in every state of the controller exactly one of the three virtual
\* buttons of every hat component and of every axis is pressed.
C36_ExactlyOneVirtual ==
  \A g \in 0..(NumHats * 2) :
    Cardinality(Component(g) \cap net.c.axis_state) = 1

(***************************************************************************)
(* The templates of one controller name.  net is plumbing_templates[name]: *)
(* the plumbing of every ordinal, 0 for None; added holds the plumbings    *)
(* get_plumbing() returned.                                                *)
(***************************************************************************)
\* the files read for the name; the get_plumbing() calls made
MaxFiles == 2
MaxGets == 1

\* the ordinals in the file headers; those get_plumbing() is called with
FileOrdinals == 0..2
GetOrdinals == 0..3

\* pbtlst after "while controller_index >= len(pbtlst): pbtlst.append(None)"
\* and "pbtlst[controller_index] = pb"
SetTemplate(pbtlst, controller_index, pb) ==
  [k \in 1..(IF controller_index >= Len(pbtlst) THEN controller_index + 1 ELSE Len(pbtlst)) |->
     IF k = controller_index + 1 THEN pb
     ELSE IF k <= Len(pbtlst) THEN pbtlst[k] ELSE 0]

InitTemplates ==
  /\ valve = FreshMachine.valve
  /\ fork = FreshMachine.fork
  /\ queue = FreshMachine.queue
  /\ hist = FreshMachine.hist
  /\ plumbing = FreshMachine.plumbing
  /\ net = <<>>
  /\ op = Call("init", 0, 0)
  /\ pressed = <<>>
  /\ added = <<>>

\* read_plumbing_templates() reads a file of the name with the ordinal
\* controller_index
ReadTemplate(controller_index, blueprint) ==
  /\ added = <<>>
  /\ Cardinality(DOMAIN plumbing) < MaxFiles
  /\ SetMachine(EventPlumbing_init(Machine, NextId(Machine), "list", blueprint))
  /\ net' = SetTemplate(net, controller_index, NextId(Machine))
  /\ op' = Call("read", NextId(Machine), controller_index)
  /\ UNCHANGED <<pressed, added>>

\* get_plumbing(name, idx): the plumbing it returns, or its IndexError
GetPlumbing(idx) ==
  /\ net # <<>>
  /\ Len(added) < MaxGets
  /\ IF TemplateIndex(net, idx) = -1
     THEN /\ op' = Call("IndexError", 0, idx)
          /\ UNCHANGED <<valve, fork, queue, hist, plumbing, added>>
     ELSE /\ SetMachine(get_plumbing_from(Machine, net, idx, NextId(Machine)))
          /\ added' = Append(added, NextId(Machine))
          /\ op' = Call("get_plumbing", NextId(Machine), idx)
  /\ UNCHANGED <<net, pressed>>

NextTemplates ==
  \/ \E controller_index \in FileOrdinals, blueprint \in {BlueprintA, BlueprintB} :
       ReadTemplate(controller_index, blueprint)
  \/ \E idx \in GetOrdinals : GetPlumbing(idx)

SpecTemplates == InitTemplates /\ [][NextTemplates]_vars

\* the ordinals of lst that have a template
Present(lst) == {k \in 0..(Len(lst) - 1) : lst[k + 1] # 0}

\* idx if present, else the nearest lower present ordinal, else the nearest
\* higher one
Nearest(lst, idx) ==
  IF idx \in Present(lst) THEN idx
  ELSE IF \E k \in Present(lst) : k < idx
  THEN CHOOSE k \in Present(lst) : k < idx /\ \A j \in Present(lst) : j < idx => j <= k
  ELSE CHOOSE k \in Present(lst) : k > idx /\ \A j \in Present(lst) : j > idx => k <= j

C38_DisabledSilent ==
  [][\A v \in ValveSet(Machine, CLONE) :
       (~valve[v].enabled /\ ~valve'[v].enabled
          /\ Len(queue'[EVENT_BUFFER]) > Len(queue[EVENT_BUFFER])) =>
         \A k \in (Len(queue[EVENT_BUFFER]) + 1)..Len(queue'[EVENT_BUFFER]) :
           queue'[EVENT_BUFFER][k] \notin {valve[v].open, valve[v].closed}]_vars

(***************************************************************************)
(* A controller whose forks take a button, the hat and the axis.           *)
(***************************************************************************)
\* 0 A0 = P1_CENTER / A0 B0 C+ = P1_UP / 0 = P1_LEFT P1_UP
TextGate ==
  << [inputs |-> <<Num(0), Axis(0, 1)>>, outputs |-> <<Out("P1_CENTER")>>],
     [inputs |-> <<Axis(0, 1), Axis(1, 1), Axis(2, 2)>>, outputs |-> <<Out("P1_UP")>>],
     [inputs |-> <<Num(0)>>, outputs |-> <<Out("P1_LEFT"), Out("P1_UP")>>] >>

\* button 0 down and up, the hat at three positions, the axis at 0 and .7
GatePool ==
  {JoyButtonDown(0), JoyButtonUp(0), JoyHatMotion(0, 0, 0), JoyHatMotion(0, -1, 0),
   JoyHatMotion(0, 0, 1), JoyAxisMotion(0, 0), JoyAxisMotion(0, 7)}

InitGate == InitController("dict", TextGate)

NextGate ==
  \/ \E events \in Batches(GatePool) : Pump(events)
  \/ Clear

SpecGate == InitGate /\ [][NextGate]_vars

\* the indexes the controller holds pressed: buttons and virtual buttons
Down == net.c.button_state \cup net.c.axis_state

\* the entries of the clone that feed the valve v and are open: the valve's
\* own places at pressed indexes and the forks at pressure 1 that list v
Feeding(v) ==
  Cardinality({i \in DOMAIN plumbing[CLONE].container :
                 i \in Down /\ VRef(v) \in Elems(plumbing[CLONE].container[i])})
    + Cardinality({f \in ForksOf(Machine, CLONE) :
                     fork[f].pressure = 1 /\ v \in Elems(fork[f].output_valves)})

\* C39: after every batch pumped through the controller, every fork of k
\* indexes has the pressure -(k-1) plus the number of its indexes the
\* controller holds pressed, so the pressure is between -(k-1) and 1 and is 1
\* exactly when all k are pressed; every valve has as much pressure as it has
\* pressed indexes and forks at pressure 1 feeding it, so a fork has raised
\* each of its outputs once more than lowered exactly while it is at 1.
C39_ForkPressure ==
  /\ \A f \in ForksOf(Machine, CLONE) :
       /\ fork[f].start_pressure = 1 - Cardinality(IndexesOf(Machine, CLONE, FRef(f)))
       /\ fork[f].pressure =
            fork[f].start_pressure
              + Cardinality(IndexesOf(Machine, CLONE, FRef(f)) \cap Down)
       /\ fork[f].pressure \in fork[f].start_pressure..1
       /\ fork[f].pressure = 1 <=> IndexesOf(Machine, CLONE, FRef(f)) \subseteq Down
  /\ \A v \in ValveSet(Machine, CLONE) : valve[v].pressure = Feeding(v)

\* button 0, the centred hat and the axis at .7 hold both forks at pressure
\* 1: the valve of P1_UP is fed twice
C39_Witness ==
  /\ op.name = "pump"
  /\ \A f \in ForksOf(Machine, CLONE) : fork[f].pressure = 1
  /\ Cardinality(ForksOf(Machine, CLONE)) = 2
  /\ \E v \in ValveSet(Machine, CLONE) : valve[v].pressure = 2

\* C40: no plumbing holds two valves that are open to the same (pid, evid):
\* not the template after its construction, not a clone, and not a
\* controller's plumbing after transpose_player(), GenericButtonsFixup, a
\* button learned in place (ReplaceEvent) or merged (replace_valve).
C40_OneValvePerEvent ==
  \A p \in DOMAIN plumbing :
    \A v \in ValveSet(Machine, p) : \A w \in ValveSet(Machine, p) :
      valve[v].open = valve[w].open => v = w

\* the generic button of the controller at position 1 has just been learned
\* to be UP and merged into the valve of UP, now the only valve at index 0 and
\* an output of the fork
C40_Witness ==
  /\ op.name = "learn" /\ op.p = 1
  /\ \A v \in ValveSet(Machine, net.controllers[2]) : valve[v].open[2] < GENERIC_BUTTON
  /\ \E v \in ValveSet(Machine, net.controllers[2]) :
       /\ valve[v].open[2] = UP
       /\ SelectSeq(plumbing[net.controllers[2]].container[0], LAMBDA x : x.t = "V")
            = <<VRef(v)>>
       /\ \E f \in ForksOf(Machine, net.controllers[2]) : v \in Elems(fork[f].output_valves)

====
